---- MODULE Spec2Model ----
(***************************************************************************)
(* A model of dubstub's stub generator (src/dubstub/generate/stubber.py).  *)
(*                                                                         *)
(* Encoding of texts.  A Python source text is modelled by the sequence of *)
(* its lines, each line a record [sp, line]: sp is the number of leading   *)
(* spaces and line the content.  The content of a line is the statement    *)
(* header written on it, kept as a record; the text of an expression is    *)
(* the expression tree that ast.unparse prints (the canonical form), a     *)
(* string literal holding the text of its content.  The flag ml of a       *)
(* subscript or string says that its original source text spans several    *)
(* lines, which only unparse_original_source can observe.                  *)
(***************************************************************************)
EXTENDS Naturals, Sequences, FiniteSets, TLC

VARIABLES
    config,      \* the ValidatedConfig shared by all passes
    relative_path, \* the relative_path argument, read by file_path_is only
    inp,         \* the module that the text given to the current
                 \* stubgen_single_file_src call parses to
    pc,          \* position in stubgen_single_file_src: "start", "pass1", "done", "raised"
    text,        \* the text returned by the last _stub_content call
    module,      \* the ast.Module the last _stub_content call parsed
    tree,        \* the MODULE node the last Stubber.output call rendered
    used_names,  \* Stubber.used_names when the last pass ended (<<>> is None)
    log,         \* the Logger calls made by the last pass
    discovered,  \* whether the last pass ran discover_module_names
    round,       \* number of completed stubgen_single_file_src calls
    stubbed,     \* the results of the completed calls, oldest first
    pattern_src, \* the pattern given to parse_pattern
    match_ctx,   \* the MatchContext given to the matcher
    parsed,      \* what parse_pattern returned or raised
    verdict,     \* what the matcher returned for ctx
    files,       \* the files that a caller stubs with one config: for each its text,
                 \* path, position, and the Source and Stubber of its current
                 \* _stub_content call
    import_src,  \* an import statement with one member, and a set of used names
    imported,    \* what get_imported_name and keep_import returned for the member
    walker,      \* the events that Walker(inp_root, out_root).walk() yields
    walked,      \* how many of them the first loop of generate has taken
    roots,       \* generate's list of (root, stub_events, copy_events)
    cur,         \* the index in roots of the second loop of generate
    step,        \* the position in the body of that loop: "clean", "stub", "copy"
    copied,      \* how many copy events of roots[cur] have been copied
    effects,     \* the calls made so far that change the output tree, oldest first
    out_tree     \* for each file of the output tree, who has written it since it
                 \* was last removed, oldest first

stub_vars == <<config, relative_path, inp, text, module, tree, used_names, log, discovered, round, stubbed>>
pattern_vars == <<pattern_src, match_ctx, parsed, verdict>>
import_vars == <<import_src, imported>>
mypy_vars == <<walker, walked, roots, cur, step, copied, effects, out_tree>>
vars == <<pc, stub_vars, pattern_vars, files, import_vars, mypy_vars>>

-----------------------------------------------------------------------------
(* Bounds of the model *)

\* statements in the body of the input module
MaxStmts == 2
\* successive applications of stubgen_single_file_src (the input, then its own output)
MaxRounds == 2
\* nested string literals around a quoted annotation
MaxQuote == 3
\* parameters of each kind in a signature
MaxParams == 2
\* children of a node in the trees given to collect_lines on its own
MaxChildren == 3

-----------------------------------------------------------------------------
(* Optional values *)

\* None for an optional expression or text
NoExpr == [k |-> "none"]
\* None for an optional name (names are token sequences)
NoName == <<>>
\* None for an optional set; Some(S) is <<S>>
NoSet == <<>>
Some(S) == <<S>>

-----------------------------------------------------------------------------
(* Expressions *)

Name(id) == [k |-> "name", id |-> id]
Num == [k |-> "num"]
Dots == [k |-> "dots"]
\* a text that is no expression
Junk == [k |-> "junk"]
\* a string literal whose content is the text s
Str(s) == [k |-> "str", s |-> s, ml |-> FALSE]
Sub(base, args) == [k |-> "sub", base |-> base, args |-> args, ml |-> FALSE]
Attr(value, attr) == [k |-> "attr", value |-> value, attr |-> attr]
Call(func, args) == [k |-> "call", func |-> func, args |-> args]
ListOf(elts) == [k |-> "list", elts |-> elts]
TupleOf(elts) == [k |-> "tuple", elts |-> elts]
BitOr(left, right) == [k |-> "bitor", left |-> left, right |-> right]
\* the same literal or subscript written over several source lines
MultiLine(e) == [e EXCEPT !.ml = TRUE]

RECURSIVE unparse(_)
\* Source.unparse: the canonical one-line text of an expression
unparse(e) ==
    CASE e.k = "sub" -> [e EXCEPT !.args = [i \in DOMAIN e.args |-> unparse(e.args[i])], !.ml = FALSE]
      [] e.k = "str" -> [e EXCEPT !.ml = FALSE]
      [] e.k = "attr" -> [e EXCEPT !.value = unparse(e.value)]
      [] e.k = "call" -> [e EXCEPT !.func = unparse(e.func),
                                   !.args = [i \in DOMAIN e.args |-> unparse(e.args[i])]]
      [] e.k \in {"list", "tuple"} -> [e EXCEPT !.elts = [i \in DOMAIN e.elts |-> unparse(e.elts[i])]]
      [] e.k = "bitor" -> [e EXCEPT !.left = unparse(e.left), !.right = unparse(e.right)]
      [] OTHER -> e

\* Source.unparse_original_source: the source text of the node, layout included
unparse_original_source(e) == e

RECURSIVE HasNewline(_)
\* "\n" in text
HasNewline(t) ==
    CASE t.k = "sub" -> t.ml \/ \E i \in DOMAIN t.args : HasNewline(t.args[i])
      [] t.k = "str" -> t.ml
      [] t.k = "attr" -> HasNewline(t.value)
      [] t.k = "call" -> HasNewline(t.func) \/ \E i \in DOMAIN t.args : HasNewline(t.args[i])
      [] t.k \in {"list", "tuple"} -> \E i \in DOMAIN t.elts : HasNewline(t.elts[i])
      [] t.k = "bitor" -> HasNewline(t.left) \/ HasNewline(t.right)
      [] OTHER -> FALSE

\* Source.parse_expr raises SyntaxError on this text
ParseFails(t) == t.k = "junk"
\* Source.parse_expr: the expression a text denotes
parse_expr(t) == t

RECURSIVE unparse_type_expr(_)
\* unparse_type_expr that rewrites every argument of an Annotated subscript
unparse_type_expr_rewrites_metadata(expr) ==
    CASE expr.k = "sub" ->
            IF expr.base = "Literal"
            THEN unparse_original_source(expr)
            ELSE [k |-> "sub", base |-> expr.base, ml |-> FALSE,
                  args |-> [i \in DOMAIN expr.args |-> unparse_type_expr(expr.args[i])]]
      [] expr.k \in {"tuple", "list"} ->
            [expr EXCEPT !.elts = [i \in DOMAIN expr.elts |-> unparse_type_expr(expr.elts[i])]]
      [] expr.k = "bitor" ->
            [expr EXCEPT !.left = unparse_type_expr(expr.left),
                         !.right = unparse_type_expr(expr.right)]
      [] expr.k = "str" ->
            IF ParseFails(expr.s) THEN unparse(expr) ELSE unparse(parse_expr(expr.s))
      [] OTHER -> unparse(expr)

\* unparse_type_expr that takes the content of a string literal as it is, parsed
\* or not
unparse_type_expr_content(expr) ==
    CASE expr.k = "sub" ->
            IF expr.base = "Literal"
            THEN unparse_original_source(expr)
            ELSE [k |-> "sub", base |-> expr.base, ml |-> FALSE,
                  args |-> [i \in DOMAIN expr.args |->
                              IF i > 1 /\ expr.base = "Annotated"
                              THEN unparse(expr.args[i])
                              ELSE unparse_type_expr(expr.args[i])]]
      [] expr.k \in {"tuple", "list"} ->
            [expr EXCEPT !.elts = [i \in DOMAIN expr.elts |-> unparse_type_expr(expr.elts[i])]]
      [] expr.k = "bitor" ->
            [expr EXCEPT !.left = unparse_type_expr(expr.left),
                         !.right = unparse_type_expr(expr.right)]
      [] expr.k = "str" -> expr.s
      [] OTHER -> unparse(expr)

\* Stubber.unparse_type_expr
unparse_type_expr(expr) ==
    CASE expr.k = "sub" ->
            IF expr.base = "Literal"
            THEN unparse_original_source(expr)
            ELSE [k |-> "sub", base |-> expr.base, ml |-> FALSE,
                  args |-> [i \in DOMAIN expr.args |->
                              IF i > 1 /\ expr.base = "Annotated"
                              THEN unparse(expr.args[i])
                              ELSE unparse_type_expr(expr.args[i])]]
      [] expr.k \in {"tuple", "list"} ->
            [expr EXCEPT !.elts = [i \in DOMAIN expr.elts |-> unparse_type_expr(expr.elts[i])]]
      [] expr.k = "bitor" ->
            [expr EXCEPT !.left = unparse_type_expr(expr.left),
                         !.right = unparse_type_expr(expr.right)]
      [] expr.k = "str" ->
            IF ParseFails(expr.s) THEN unparse(expr) ELSE unparse(parse_expr(expr.s))
      [] OTHER -> unparse(expr)

RECURSIVE ExprNames(_)
\* the ids of the ast.Name nodes that ast.walk finds in an expression
ExprNames(e) ==
    CASE e.k = "name" -> {e.id}
      [] e.k = "sub" -> {e.base} \cup UNION {ExprNames(e.args[i]) : i \in DOMAIN e.args}
      [] e.k = "attr" -> ExprNames(e.value)
      [] e.k = "call" -> ExprNames(e.func) \cup UNION {ExprNames(e.args[i]) : i \in DOMAIN e.args}
      [] e.k \in {"list", "tuple"} -> UNION {ExprNames(e.elts[i]) : i \in DOMAIN e.elts}
      [] e.k = "bitor" -> ExprNames(e.left) \cup ExprNames(e.right)
      [] OTHER -> {}

-----------------------------------------------------------------------------
(* Tags, match contexts and patterns (dubstub.config) *)

Tags == {"MODULE", "CLASS", "FUNCTION", "VARIABLE", "IMPORT", "IF", "DOCSTRING",
         "SPACER", "ELLIPSIS", "TYPE_ALIAS", "ANNOTATED", "ASSIGNED"}

\* Patterns.  A regular expression is modelled by its language: re is the set of
\* the tag names, names, paths or texts in which the expression finds a match.
PTrue == [op |-> "const", v |-> TRUE]
PFalse == [op |-> "const", v |-> FALSE]
node_is(re) == [op |-> "node_is", re |-> re]
parent_node_is(re) == [op |-> "parent_node_is", re |-> re]
any_child_node_is(re) == [op |-> "any_child_node_is", re |-> re]
name_is(re) == [op |-> "name_is", re |-> re]
file_path_is(re) == [op |-> "file_path_is", re |-> re]
annotation_is(re) == [op |-> "annotation_is", re |-> re]
value_is(re) == [op |-> "value_is", re |-> re]
PAnd(l, r) == [op |-> "and", l |-> l, r |-> r]
POr(l, r) == [op |-> "or", l |-> l, r |-> r]
PNot(p) == [op |-> "not", p |-> p]

MatchContext(parent_tags, tags, file_path, name, annotation, value, child_tags) ==
    [parent_tags |-> parent_tags, tags |-> tags, file_path |-> file_path, name |-> name,
     annotation |-> annotation, value |-> value, child_tags |-> child_tags]

\* a tag query that asks every tag of the set to match
tags_match_each(re, tags) == tags # {} /\ tags \subseteq re
\* a tag query on a set of tags: some tag of the set matches
tags_match(re, tags) == tags \cap re # {}

RECURSIVE PatternIsMatch(_, _)
\* Pattern.is_match
PatternIsMatch(p, ctx) ==
    CASE p.op = "const" -> p.v
      [] p.op = "node_is" -> tags_match(p.re, ctx.tags)
      [] p.op = "parent_node_is" -> tags_match(p.re, ctx.parent_tags)
      [] p.op = "any_child_node_is" -> ctx.child_tags # NoSet /\ tags_match(p.re, ctx.child_tags[1])
      [] p.op = "name_is" -> ctx.name # NoName /\ ctx.name \in p.re
      [] p.op = "file_path_is" -> ctx.file_path \in p.re
      [] p.op = "annotation_is" -> ctx.annotation # NoExpr /\ ctx.annotation \in p.re
      [] p.op = "value_is" -> ctx.value # NoExpr /\ ctx.value \in p.re
      [] p.op = "and" -> PatternIsMatch(p.l, ctx) /\ PatternIsMatch(p.r, ctx)
      [] p.op = "or" -> PatternIsMatch(p.l, ctx) \/ PatternIsMatch(p.r, ctx)
      [] p.op = "not" -> ~PatternIsMatch(p.p, ctx)

\* ValidatedConfig.get_pattern: the fields of a validated config hold compiled patterns
get_pattern(pattern) == pattern

-----------------------------------------------------------------------------
(* Pattern sources (dubstub.config.pattern.parse_pattern, dubstub.util.regex_match) *)

\* A text that a regular expression is matched against is the sequence of its
\* characters.  A regular expression is the set of its alternatives (a | b), an
\* alternative a sequence of atoms: a character, `.`, `[^c]`, each starred or not.
Lit(c) == [atom |-> "lit", c |-> c, star |-> FALSE]
AnyChar == [atom |-> "any", c |-> "", star |-> FALSE]
NotChar(c) == [atom |-> "not", c |-> c, star |-> FALSE]
Star(a) == [a EXCEPT !.star = TRUE]
Lits(s) == [i \in 1..Len(s) |-> Lit(s[i])]

\* whether the atom a accepts the character c
Accepts(a, c) ==
    CASE a.atom = "lit" -> c = a.c
      [] a.atom = "any" -> TRUE
      [] a.atom = "not" -> c # a.c

RECURSIVE MatchesWhole(_, _)
\* whether the alternative alt matches the text s from its first character to its last
MatchesWhole(alt, s) ==
    IF alt = <<>> THEN s = <<>>
    ELSE IF Head(alt).star
         THEN MatchesWhole(Tail(alt), s)
              \/ (s # <<>> /\ Accepts(Head(alt), Head(s)) /\ MatchesWhole(alt, Tail(s)))
         ELSE s # <<>> /\ Accepts(Head(alt), Head(s)) /\ MatchesWhole(Tail(alt), Tail(s))

\* re.search: the expression matches some part of the text
regex_search(pattern, string) ==
    \E i \in 1..(Len(string) + 1) : \E j \in (i - 1)..Len(string) :
        \E alt \in pattern : MatchesWhole(alt, SubSeq(string, i, j))

\* re.match: the expression matches a part of the text that starts at its first character
regex_prefix(pattern, string) ==
    \E j \in 0..Len(string) : \E alt \in pattern : MatchesWhole(alt, SubSeq(string, 1, j))

\* dubstub.util.regex_match: the expression matches the text as a whole
regex_match(pattern, string) == \E alt \in pattern : MatchesWhole(alt, string)

\* the name of a tag, as the tag queries see it
TagName ==
    ("MODULE" :> <<"m", "o", "d", "u", "l", "e">>)
    @@ ("CLASS" :> <<"c", "l", "a", "s", "s">>)
    @@ ("FUNCTION" :> <<"f", "u", "n", "c", "t", "i", "o", "n">>)
    @@ ("VARIABLE" :> <<"v", "a", "r", "i", "a", "b", "l", "e">>)
    @@ ("IMPORT" :> <<"i", "m", "p", "o", "r", "t">>)
    @@ ("IF" :> <<"i", "f">>)
    @@ ("DOCSTRING" :> <<"d", "o", "c", "s", "t", "r", "i", "n", "g">>)
    @@ ("SPACER" :> <<"s", "p", "a", "c", "e", "r">>)
    @@ ("ELLIPSIS" :> <<"e", "l", "l", "i", "p", "s", "i", "s">>)
    @@ ("TYPE_ALIAS" :> <<"t", "y", "p", "e", "_", "a", "l", "i", "a", "s">>)
    @@ ("ANNOTATED" :> <<"a", "n", "n", "o", "t", "a", "t", "e", "d">>)
    @@ ("ASSIGNED" :> <<"a", "s", "s", "i", "g", "n", "e", "d">>)

\* the texts of the tests of the pattern language
t_qux == <<"q", "u", "x">>
t_foo == <<"f", "o", "o">>
t_bar == <<"b", "a", "r">>
t__hello == <<"_", "h", "e", "l", "l", "o">>
t__h_42 == <<"_", "h", "_", "4", "2">>
t_f_ == <<"f", "_">>
t__ == <<"_">>
t___ == <<"_", "_">>
t___foo == <<"_", "_", "f", "o", "o">>
t___foo__ == <<"_", "_", "f", "o", "o", "_", "_">>
t_foo_bar == <<"f", "o", "o", "/", "b", "a", "r">>
t__foo_bar == <<"/", "f", "o", "o", "/", "b", "a", "r">>
t__bar_foo == <<"/", "b", "a", "r", "/", "f", "o", "o">>
t_ref_str == <<"&", "s", "t", "r">>
t_PhantomData == <<"P", "h", "a", "n", "t", "o", "m", "D", "a", "t", "a">>

Strings == {t_qux, t_foo, t_bar, t__hello, t__h_42, t_f_, t__, t___, t___foo, t___foo__,
            t_foo_bar, t__foo_bar, t__bar_foo, t_ref_str, t_PhantomData}
\* the unparsed text of an annotation or value, in a MatchContext built by hand
Text(s) == [k |-> "text", s |-> s]

\* The source of a pattern.  A bool given in place of a string is PyBool(b); a
\* string is the Python expression it parses to: a constant (BoolLit, Num, Str),
\* a call with its keywords, `and`, `or`, `not`.  A string constant holds a
\* regular expression.
PyBool(b) == [k |-> "pybool", v |-> b]
BoolLit(b) == [k |-> "bool", v |-> b]
QueryCall(func, args, keywords) == [k |-> "call", func |-> func, args |-> args, keywords |-> keywords]
AndOp(l, r) == [k |-> "and", l |-> l, r |-> r]
OrOp(l, r) == [k |-> "or", l |-> l, r |-> r]
NotOp(operand) == [k |-> "not", operand |-> operand]

TagQueries == {"node_is", "parent_node_is", "any_child_node_is"}
NameQueries == {"name_is", "file_path_is"}
TextQueries == {"annotation_is", "value_is"}
QueryFunctions == TagQueries \cup NameQueries \cup TextQueries

\* the result of parse_pattern: a matcher, or the ValueError raised
Parsed(matcher) == [ok |-> TRUE, matcher |-> matcher, error |-> ""]
ValueError(rule) == [ok |-> FALSE, matcher |-> PFalse, error |-> rule]

\* the matcher of a query: the regular expression is compiled to the set of the
\* tags, names, paths or texts that it matches
Query(fn, regex) ==
    CASE fn \in TagQueries -> [op |-> fn, re |-> {t \in Tags : regex_match(regex, TagName[t])}]
      [] fn \in NameQueries -> [op |-> fn, re |-> {s \in Strings : regex_match(regex, s)}]
      [] fn \in TextQueries -> [op |-> fn, re |-> {Text(s) : s \in {x \in Strings : regex_match(regex, x)}}]

\* parse_call that does not look at the keywords of the call
parse_call_any_keywords(e) ==
    IF e.func.k # "name" THEN ValueError("unsupported function syntax")
    ELSE IF e.func.id \notin QueryFunctions THEN ValueError("unsupported function name")
    ELSE IF Len(e.args) # 1 THEN ValueError("unsupported function signature")
    ELSE IF e.args[1].k # "str" THEN ValueError("unsupported function argument")
    ELSE Parsed(Query(e.func.id, e.args[1].s))

\* parse_pattern, for a call
parse_call(e) ==
    IF e.func.k # "name" THEN ValueError("unsupported function syntax")
    ELSE IF e.func.id \notin QueryFunctions THEN ValueError("unsupported function name")
    ELSE IF e.keywords # <<>> \/ Len(e.args) # 1 THEN ValueError("unsupported function signature")
    ELSE IF e.args[1].k # "str" THEN ValueError("unsupported function argument")
    ELSE Parsed(Query(e.func.id, e.args[1].s))

RECURSIVE parse_pattern_expr(_)
\* parse_pattern, for the expression that a string pattern parses to
parse_pattern_expr(e) ==
    CASE e.k = "bool" -> Parsed([op |-> "const", v |-> e.v])
      [] e.k = "num" -> ValueError("unsupported constant type: int")
      [] e.k = "str" -> ValueError("unsupported constant type: str")
      [] e.k = "call" -> parse_call(e)
      [] e.k = "not" ->
            LET operand == parse_pattern_expr(e.operand)
            IN IF operand.ok THEN Parsed(PNot(operand.matcher)) ELSE operand
      [] e.k \in {"and", "or"} ->
            LET l == parse_pattern_expr(e.l)
                r == parse_pattern_expr(e.r)
            IN IF ~l.ok THEN l
               ELSE IF ~r.ok THEN r
               ELSE Parsed(IF e.k = "and" THEN PAnd(l.matcher, r.matcher)
                           ELSE POr(l.matcher, r.matcher))

\* parse_pattern: a bool is its own matcher
parse_pattern(pattern) ==
    IF pattern.k = "pybool" THEN Parsed([op |-> "const", v |-> pattern.v])
    ELSE parse_pattern_expr(pattern)

-----------------------------------------------------------------------------
(* Nodes *)

Node(lines, tags) == [lines |-> lines, children |-> <<>>, tags |-> tags]
\* Node.add_child, for a child that is complete
AddChild(parent, child) == [parent EXCEPT !.children = Append(@, child)]

\* the state of a transformation: the parent node under construction, whether an
\* exception has been raised, and the calls made to the logger
Walk(p, err, lg) == [p |-> p, err |-> err, log |-> lg]
Raise(S) == [S EXCEPT !.err = TRUE]
Logged(S, sev, msg) == [S EXCEPT !.log = @ \cup {[sev |-> sev, msg |-> msg]}]

\* is_match that leaves the name out of the context
is_match_without_name(self, pattern, parent, tags, name, annotation, value, children) ==
    LET child_tags == IF children # <<>>
                      THEN Some(UNION {children[i].tags : i \in DOMAIN children})
                      ELSE NoSet
        ctx == MatchContext(parent.tags, tags, self.file_path, NoName, annotation, value, child_tags)
    IN PatternIsMatch(get_pattern(pattern), ctx)

\* Stubber.is_match
is_match(self, pattern, parent, tags, name, annotation, value, children) ==
    LET child_tags == IF children # <<>>
                      THEN Some(UNION {children[i].tags : i \in DOMAIN children})
                      ELSE NoSet
        ctx == MatchContext(parent.tags, tags, self.file_path, name, annotation, value, child_tags)
    IN PatternIsMatch(get_pattern(pattern), ctx)

\* "\n" in line, for the lines given to Node.add_line without allow_multiline
LineHasNewline(line) ==
    CASE line.t = "assign" -> (line.ann # NoExpr /\ HasNewline(line.ann))
                              \/ (line.val # NoExpr /\ HasNewline(line.val))
      [] line.t = "def" -> (line.returns # NoExpr /\ HasNewline(line.returns))
                           \/ \E i \in DOMAIN line.args :
                                  line.args[i].ann # NoExpr /\ HasNewline(line.args[i].ann)
      [] line.t = "type" -> HasNewline(line.val)
      [] OTHER -> FALSE

-----------------------------------------------------------------------------
(* Imports *)

\* ast.alias: name is the dotted name as the sequence of its components, <<"*">>
\* for a wildcard; asname is NoName when there is no "as" clause
Alias(name, asname) == [name |-> name, asname |-> asname]
Import(names) == [kind |-> "import", isfrom |-> FALSE, names |-> names]
ImportFrom(names) == [kind |-> "import", isfrom |-> TRUE, names |-> names]

\* Stubber.import_is_export
import_is_export(name) ==
    IF name.name = <<"*">> THEN TRUE
    ELSE IF name.asname = NoName THEN FALSE
    ELSE name.name = name.asname

\* get_imported_name that takes the last component of a dotted name
get_imported_name_of_last(name) ==
    IF name.asname # NoName THEN name.asname[1]
    ELSE name.name[Len(name.name)]

\* Stubber.get_imported_name
get_imported_name(name) ==
    IF name.asname # NoName THEN name.asname[1]
    ELSE IF Len(name.name) = 1 THEN name.name[1]
    ELSE name.name[1]

\* keep_import without the re-export test
keep_import_unless_unused(self, alias_name) ==
    LET name == get_imported_name(alias_name)
    IN name = "*" \/ name \in self.used_names[1]

\* the test of stub_import's loop over obj.names
keep_import(self, alias_name) ==
    LET name == get_imported_name(alias_name)
    IN name = "*" \/ name \in self.used_names[1] \/ import_is_export(alias_name)

\* Stubber.stub_import
stub_import(S, obj, self) ==
    LET parent == S.p
        tags == {"IMPORT"}
        keep_unused_import ==
            is_match(self, self.config.keep_unused_imports, parent, tags, NoName, NoExpr, NoExpr, <<>>)
        pruning == ~keep_unused_import /\ self.used_names # NoSet
        new_names == SelectSeq(obj.names, LAMBDA a : keep_import(self, a))
        kept == IF pruning THEN [obj EXCEPT !.names = new_names] ELSE obj
        this == Node(<<[t |-> "import", stmt |-> kept]>>, tags)
    IN IF pruning /\ new_names = <<>>
       THEN S
       ELSE [S EXCEPT !.p = AddChild(parent, this)]

-----------------------------------------------------------------------------
(* Assignment targets and function signatures *)

\* The text of an assignment target is the sequence of its tokens.
Punctuation == {".", "[", "]", ",", "(", ")", "="}

RECURSIVE JoinTokens(_, _)
\* sep.join(parts), for token sequences
JoinTokens(parts, sep) ==
    IF parts = <<>> THEN <<>>
    ELSE IF Len(parts) = 1 THEN parts[1]
    ELSE parts[1] \o <<sep>> \o JoinTokens(Tail(parts), sep)

RECURSIVE TargetText(_)
\* Source.unparse of an assignment target
TargetText(e) ==
    CASE e.k = "name" -> <<e.id>>
      [] e.k = "attr" -> TargetText(e.value) \o <<".", e.attr>>
      [] e.k = "sub" -> <<e.base, "[">>
                        \o JoinTokens([i \in DOMAIN e.args |-> TargetText(e.args[i])], ",")
                        \o <<"]">>
      [] e.k = "tuple" -> JoinTokens([i \in DOMAIN e.elts |-> TargetText(e.elts[i])], ",")
      [] e.k = "list" -> <<"[">>
                         \o JoinTokens([i \in DOMAIN e.elts |-> TargetText(e.elts[i])], ",")
                         \o <<"]">>
      [] e.k = "toks" -> e.toks
      [] OTHER -> <<"1">>

\* Stubber.unparse_assign_target; is_list says that targets is a list (ast.Assign)
unparse_assign_target(targets, simple, is_list) ==
    IF is_list
    THEN JoinTokens([i \in DOMAIN targets |-> TargetText(targets[i])], "=")
    ELSE IF simple = 0
         THEN <<"(">> \o TargetText(targets[1]) \o <<")">>
         ELSE TargetText(targets[1])

\* text.split("=")[0].strip()
BeforeEquals(toks) ==
    IF \E i \in DOMAIN toks : toks[i] = "="
    THEN SubSeq(toks, 1, (CHOOSE i \in DOMAIN toks :
                             toks[i] = "=" /\ \A j \in 1..(i - 1) : toks[j] # "=") - 1)
    ELSE toks

\* ast.arg and ast.arguments
Arg(name, annotation) == [arg |-> name, annotation |-> annotation]
Arguments(posonlyargs, args, vararg, kwonlyargs, kw_defaults, kwarg, defaults) ==
    [posonlyargs |-> posonlyargs, args |-> args, vararg |-> vararg, kwonlyargs |-> kwonlyargs,
     kw_defaults |-> kw_defaults, kwarg |-> kwarg, defaults |-> defaults]

\* One comma-separated item of a rendered signature: pre is "", "*", "**" or "/",
\* dflt the text after " = " (NoExpr when there is none).
Item(pre, name, ann, dflt) == [pre |-> pre, name |-> name, ann |-> ann, dflt |-> dflt]

\* unparse_arg with keep_val set
unparse_arg_keep_val(arg, val) ==
    Item("", arg.arg,
         IF arg.annotation # NoExpr THEN unparse_type_expr(arg.annotation) ELSE NoExpr,
         IF val # NoExpr THEN unparse(val) ELSE NoExpr)

\* Stubber.unparse_arg (keep_val is never set by a caller)
unparse_arg(arg, val) ==
    Item("", arg.arg,
         IF arg.annotation # NoExpr THEN unparse_type_expr(arg.annotation) ELSE NoExpr,
         IF val # NoExpr THEN Dots ELSE NoExpr)

\* "*" + text and "**" + text
Prefixed(pre, item) == [item EXCEPT !.pre = pre]

\* Stubber.unparse_arguments
unparse_arguments(ast_args) ==
    LET posonlyargs == ast_args.posonlyargs
        args == ast_args.args
        n == Len(posonlyargs) + Len(args)
        gap == n - Len(ast_args.defaults)
        aligned_defaults == [i \in 1..n |-> IF i > gap THEN ast_args.defaults[i - gap] ELSE NoExpr]
        pos == [i \in DOMAIN posonlyargs |-> unparse_arg(posonlyargs[i], aligned_defaults[i])]
               \o (IF posonlyargs # <<>> THEN <<Item("/", "", NoExpr, NoExpr)>> ELSE <<>>)
        reg == [i \in DOMAIN args |-> unparse_arg(args[i], aligned_defaults[Len(posonlyargs) + i])]
        var == IF ast_args.vararg # NoExpr
               THEN <<Prefixed("*", unparse_arg(ast_args.vararg, NoExpr))>>
               ELSE <<>>
        kwonlyargs_started == ast_args.vararg # NoExpr
        kwo == IF ast_args.kwonlyargs # <<>>
               THEN (IF ~kwonlyargs_started THEN <<Item("*", "", NoExpr, NoExpr)>> ELSE <<>>)
                    \o [i \in DOMAIN ast_args.kwonlyargs |->
                          unparse_arg(ast_args.kwonlyargs[i], ast_args.kw_defaults[i])]
               ELSE <<>>
        kw == IF ast_args.kwarg # NoExpr
              THEN <<Prefixed("**", unparse_arg(ast_args.kwarg, NoExpr))>>
              ELSE <<>>
    IN pos \o reg \o var \o kwo \o kw

-----------------------------------------------------------------------------
(* Statements *)

Assign(targets, value) ==
    [kind |-> "assign", ann |-> FALSE, targets |-> targets, annotation |-> NoExpr,
     value |-> value, simple |-> 1]
AnnAssign(target, annotation, value, simple) ==
    [kind |-> "assign", ann |-> TRUE, targets |-> <<target>>, annotation |-> annotation,
     value |-> value, simple |-> simple]
\* ast.keyword: arg is NoName for **kwargs
Keyword(arg, value) == [arg |-> arg, value |-> value]
ClassDef(name, bases, keywords, body, decorator_list) ==
    [kind |-> "class", name |-> name, bases |-> bases, keywords |-> keywords, body |-> body,
     decorator_list |-> decorator_list]
FunctionDef(is_async, name, args, body, decorator_list, returns) ==
    [kind |-> "func", is_async |-> is_async, name |-> name, args |-> args, body |-> body,
     decorator_list |-> decorator_list, returns |-> returns]
Expr(value) == [kind |-> "expr", value |-> value]
If(test, body, orelse) == [kind |-> "if", test |-> test, body |-> body, orelse |-> orelse]
\* a statement with a body and no other part the stubber reads: try, trystar, with,
\* asyncwith, for, asyncfor, while
Block(kind, body) == [kind |-> kind, body |-> body]
\* ast.Try and ast.TryStar: handlers, orelse and finalbody hold the statements of
\* the except, else and finally blocks
Try(kind, body, handlers, orelse, finalbody) ==
    [kind |-> kind, body |-> body, handlers |-> handlers, orelse |-> orelse,
     finalbody |-> finalbody]
\* ast.TypeAlias without type parameters: `type NAME = VALUE`
TypeAlias(name, value) == [kind |-> "typealias", name |-> name, value |-> value]
\* a statement without parts the stubber reads: pass, assert, delete, raise,
\* augassign, match, return, global
Simple(kind) == [kind |-> kind]

\* the kinds of the "intentionally ignored" arm of Stubber.stub
IntentionallyIgnored == {"pass", "for", "assert", "delete", "raise", "augassign", "while", "match"}

\* the lines of the output
ImportLine(stmt) == [t |-> "import", stmt |-> stmt]
\* the assignment line with " = ..." also when there is no value
AssignLine_always_assigned(target, ann, val) ==
    [t |-> "assign", target |-> target, ann |-> ann, val |-> IF val = NoExpr THEN Dots ELSE val]
AssignLine(target, ann, val) == [t |-> "assign", target |-> target, ann |-> ann, val |-> val]
DecoratorLine(e) == [t |-> "deco", e |-> e]
ClassLine(name, bases) == [t |-> "class", name |-> name, bases |-> bases]
DefLine(is_async, name, args, returns) ==
    [t |-> "def", is_async |-> is_async, name |-> name, args |-> args, returns |-> returns]
DocLine(raw) == [t |-> "doc", raw |-> raw]
IfLine(word, test) == [t |-> word, test |-> test]
ElseLine == [t |-> "else"]
EllipsisLine == [t |-> "dots"]
BlankLine == [t |-> "blank"]

\* parent.add_child(Tag.SPACER).add_line("")
Spacer == Node(<<BlankLine>>, {"SPACER"})

\* Stubber.as_string_constant(obj) is not None
as_string_constant(e) == e.k = "str"

\* check_body_ellipsis without the add_redundant_ellipsis policy
check_body_ellipsis_if_empty(self, parent, this, name) ==
    IF this.children = <<>>
    THEN AddChild(this, Node(<<EllipsisLine>>, {"ELLIPSIS"}))
    ELSE this

\* Stubber.check_body_ellipsis: the node this with its ellipsis child, if any
check_body_ellipsis(self, parent, this, name) ==
    IF this.children = <<>>
    THEN AddChild(this, Node(<<EllipsisLine>>, {"ELLIPSIS"}))
    ELSE IF is_match(self, self.config.add_redundant_ellipsis, parent, this.tags,
                     name, NoExpr, NoExpr, this.children)
         THEN AddChild(this, Node(<<EllipsisLine>>, {"ELLIPSIS"}))
         ELSE this

\* Stubber.stub_assign
stub_assign(S, obj, self) ==
    LET parent == S.p
        targets_unparsed == unparse_assign_target(obj.targets, obj.simple, ~obj.ann)
        name == BeforeEquals(targets_unparsed)
        annotation_pattern ==
            IF obj.annotation # NoExpr THEN unparse_type_expr(obj.annotation) ELSE NoExpr
        value_pattern == IF obj.value # NoExpr THEN unparse(obj.value) ELSE NoExpr
        tags == {"VARIABLE"}
                \cup (IF obj.annotation # NoExpr THEN {"ANNOTATED"} ELSE {})
                \cup (IF obj.value # NoExpr THEN {"ASSIGNED"} ELSE {})
        keep_variable_value ==
            is_match(self, self.config.keep_variable_value, parent, tags,
                     name, annotation_pattern, value_pattern, <<>>)
        value_fragment ==
            IF ~keep_variable_value /\ value_pattern # NoExpr THEN Dots ELSE value_pattern
        line == AssignLine(targets_unparsed, annotation_pattern, value_fragment)
        this == Node(<<line>>, tags)
        keep_definitions ==
            is_match(self, self.config.keep_definitions, parent, tags,
                     name, annotation_pattern, value_pattern, <<>>)
        S1 == IF ~keep_variable_value /\ value_pattern # NoExpr
              THEN Logged(S, "disabled", "value")
              ELSE S
    IN IF \E i \in DOMAIN targets_unparsed : targets_unparsed[i] = "."
       THEN S
       ELSE IF LineHasNewline(line)
       THEN Raise(S1)
       ELSE IF ~keep_definitions
       THEN Logged(S1, "disabled", "variable")
       ELSE [S1 EXCEPT !.p = AddChild(parent, this)]


RECURSIVE stub(_, _, _)
RECURSIVE StubAll(_, _, _)
RECURSIVE stub_orelse(_, _, _)

\* for child in body: self.stub(parent, child); an exception ends the loop
StubAll(S, body, self) ==
    IF body = <<>> \/ S.err
    THEN S
    ELSE StubAll(stub(S, Head(body), self), Tail(body), self)

\* the part common to stub_class, stub_func and the branches of stub_if: the node
\* this gets the stubs of body and its ellipsis, as a child of the parent of S
StubBody(S, this, body, name, self) ==
    LET B == StubAll(Walk(this, FALSE, S.log), body, self)
    IN IF B.err
       THEN Walk(S.p, TRUE, B.log)
       ELSE Walk(AddChild(S.p, check_body_ellipsis(self, S.p, B.p, name)), FALSE, B.log)

\* Stubber.stub_class
stub_class(S, obj, self) ==
    LET parent == S.p
        tags == {"CLASS"}
        decorators == [i \in DOMAIN obj.decorator_list |->
                          DecoratorLine(unparse(obj.decorator_list[i]))]
        bases_unparsed ==
            [i \in DOMAIN obj.bases |-> unparse(obj.bases[i])]
            \o [i \in DOMAIN obj.keywords |->
                  Keyword(obj.keywords[i].arg, unparse(obj.keywords[i].value))]
        this == Node(decorators \o <<ClassLine(obj.name, bases_unparsed)>>, tags)
        B == StubBody(S, this, obj.body, <<obj.name>>, self)
    IN IF ~is_match(self, self.config.keep_definitions, parent, tags,
                    <<obj.name>>, NoExpr, NoExpr, <<>>)
       THEN Logged(S, "disabled", "class")
       ELSE IF \E i \in DOMAIN obj.keywords : obj.keywords[i].arg = NoName
       THEN Raise(S)
       ELSE IF B.err
       THEN B
       ELSE [B EXCEPT !.p = AddChild(B.p, Spacer)]

\* Stubber.stub_expr
stub_expr(S, obj, self) ==
    LET parent == S.p
        keep_docstring ==
            IF parent.children = <<>>
            THEN TRUE
            ELSE is_match(self, self.config.keep_trailing_docstrings, parent,
                          parent.children[Len(parent.children)].tags,
                          NoName, NoExpr, NoExpr, <<>>)
        raw_lit == unparse_original_source(obj.value)
    IN IF as_string_constant(obj.value)
       THEN IF keep_docstring
            THEN [S EXCEPT !.p = AddChild(parent, Node(<<DocLine(raw_lit)>>, {"DOCSTRING"}))]
            ELSE S
       ELSE Logged(S, "intentional", "expr")

\* returns_unparsed with the policy asked before the annotation is looked at
returns_unparsed_policy_first(self, parent, obj) ==
    IF is_match(self, self.config.add_implicit_none_return, parent, {"FUNCTION"},
                <<obj.name>>, NoExpr, NoExpr, <<>>)
    THEN Name("None")
    ELSE IF obj.returns # NoExpr
         THEN unparse_type_expr(obj.returns)
         ELSE NoExpr

\* returns_unparsed of stub_func: the text after " -> ", None when there is no arrow
returns_unparsed(self, parent, obj) ==
    IF obj.returns # NoExpr
    THEN unparse_type_expr(obj.returns)
    ELSE IF is_match(self, self.config.add_implicit_none_return, parent, {"FUNCTION"},
                     <<obj.name>>, NoExpr, NoExpr, <<>>)
         THEN Name("None")
         ELSE NoExpr

\* Stubber.stub_func
stub_func(S, obj, self) ==
    LET parent == S.p
        tags == {"FUNCTION"}
        decorators == [i \in DOMAIN obj.decorator_list |->
                          DecoratorLine(unparse(obj.decorator_list[i]))]
        args_unparsed == unparse_arguments(obj.args)
        signature == DefLine(obj.is_async, obj.name, args_unparsed,
                             returns_unparsed(self, parent, obj))
        this == Node(decorators \o <<signature>>, tags)
        docstring == IF obj.body # <<>> /\ obj.body[1].kind = "expr"
                        /\ as_string_constant(obj.body[1].value)
                     THEN <<obj.body[1]>>
                     ELSE <<>>
        B == StubBody(S, this, docstring, <<obj.name>>, self)
    IN IF ~is_match(self, self.config.keep_definitions, parent, tags,
                    <<obj.name>>, NoExpr, NoExpr, <<>>)
       THEN Logged(S, "disabled", "function")
       ELSE IF LineHasNewline(signature)
       THEN Raise(S)
       ELSE IF B.err
       THEN B
       ELSE [B EXCEPT !.p = AddChild(B.p, Spacer)]

\* the loop of stub_if with flatten_if asked for each elif branch as well
stub_orelse_flattening(S, orelse, self) ==
    IF S.err \/ orelse = <<>>
    THEN S
    ELSE IF Len(orelse) = 1 /\ orelse[1].kind = "if"
    THEN LET test_unparsed == unparse(orelse[1].test)
             flat == is_match(self, self.config.flatten_if, S.p, {"IF"},
                              NoName, NoExpr, test_unparsed, <<>>)
             S1 == IF flat THEN StubAll(S, orelse[1].body, self) ELSE S
         IN stub_orelse(StubBody(S1, Node(<<IfLine("elif", test_unparsed)>>, {"IF"}),
                                 IF flat THEN <<>> ELSE orelse[1].body, NoName, self),
                        orelse[1].orelse, self)
    ELSE StubBody(S, Node(<<ElseLine>>, {"IF"}), orelse, NoName, self)

\* the loop over the elif branches and the final else of stub_if
stub_orelse(S, orelse, self) ==
    IF S.err \/ orelse = <<>>
    THEN S
    ELSE IF Len(orelse) = 1 /\ orelse[1].kind = "if"
    THEN stub_orelse(StubBody(S, Node(<<IfLine("elif", unparse(orelse[1].test))>>, {"IF"}),
                              orelse[1].body, NoName, self),
                     orelse[1].orelse, self)
    ELSE StubBody(S, Node(<<ElseLine>>, {"IF"}), orelse, NoName, self)

\* stub_if without skip_first_body: a flattened body is stubbed in place as well
stub_if_keeps_first_body(S, obj, self) ==
    LET test_unparsed == unparse(obj.test)
        tags == {"IF"}
        flatten ==
            is_match(self, self.config.flatten_if, S.p, tags, NoName, NoExpr, test_unparsed, <<>>)
        S1 == IF flatten THEN StubAll(S, obj.body, self) ELSE S
        this == Node(<<IfLine("if", test_unparsed)>>, tags)
        S2 == StubBody(S1, this, obj.body, NoName, self)
    IN IF S1.err
       THEN S1
       ELSE IF is_match(self, self.config.keep_if_statements, S1.p, tags,
                        NoName, NoExpr, NoExpr, <<>>)
       THEN stub_orelse(S2, obj.orelse, self)
       ELSE S1

\* Stubber.stub_if
stub_if(S, obj, self) ==
    LET test_unparsed == unparse(obj.test)
        tags == {"IF"}
        skip_first_body ==
            is_match(self, self.config.flatten_if, S.p, tags, NoName, NoExpr, test_unparsed, <<>>)
        S1 == IF skip_first_body THEN StubAll(S, obj.body, self) ELSE S
        this == Node(<<IfLine("if", test_unparsed)>>, tags)
        S2 == StubBody(S1, this, IF skip_first_body THEN <<>> ELSE obj.body, NoName, self)
    IN IF S1.err
       THEN S1
       ELSE IF is_match(self, self.config.keep_if_statements, S1.p, tags,
                        NoName, NoExpr, NoExpr, <<>>)
       THEN stub_orelse(S2, obj.orelse, self)
       ELSE S1

\* Stubber.stub_try, stub_try_star and stub_with
stub_try(S, obj, self) == StubAll(S, obj.body, self)

\* stub_type_alias made subject to keep_definitions, as stub_assign is
stub_type_alias_by_policy(S, obj, self) ==
    LET unparsed == [t |-> "type", name |-> obj.name, val |-> unparse_type_expr(obj.value)]
        tags == {"TYPE_ALIAS"}
    IN IF LineHasNewline(unparsed)
       THEN Raise(S)
       ELSE IF ~is_match(self, self.config.keep_definitions, S.p, tags,
                         <<obj.name>>, NoExpr, NoExpr, <<>>)
       THEN Logged(S, "disabled", "variable")
       ELSE [S EXCEPT !.p = AddChild(S.p, Node(<<unparsed>>, tags))]

\* Stubber.stub_type_alias
stub_type_alias(S, obj, self) ==
    LET unparsed == [t |-> "type", name |-> obj.name, val |-> unparse_type_expr(obj.value)]
    IN IF LineHasNewline(unparsed)
       THEN Raise(S)
       ELSE [S EXCEPT !.p = AddChild(S.p, Node(<<unparsed>>, {"TYPE_ALIAS"}))]

\* Stubber.stub_module
stub_module(S, obj, self) ==
    LET B == StubAll(Walk(Node(<<>>, {"MODULE"}), FALSE, S.log), obj.body, self)
    IN IF B.err
       THEN Walk(S.p, TRUE, B.log)
       ELSE Walk(AddChild(S.p, B.p), FALSE, B.log)

\* Stubber.stub
stub(S, obj, self) ==
    CASE obj.kind = "module" -> stub_module(S, obj, self)
      [] obj.kind = "import" -> stub_import(S, obj, self)
      [] obj.kind = "assign" -> stub_assign(S, obj, self)
      [] obj.kind = "class" -> stub_class(S, obj, self)
      [] obj.kind = "func" -> stub_func(S, obj, self)
      [] obj.kind = "expr" -> stub_expr(S, obj, self)
      [] obj.kind = "if" -> stub_if(S, obj, self)
      [] obj.kind \in {"try", "trystar", "with"} -> stub_try(S, obj, self)
      [] obj.kind = "typealias" -> stub_type_alias(S, obj, self)
      [] obj.kind \in IntentionallyIgnored -> Logged(S, "intentional", obj.kind)
      [] OTHER -> Logged(S, "unhandled", obj.kind)


-----------------------------------------------------------------------------
(* Rendering *)

\* the width of one indentation level: prefix = "    " * indent
IndentWidth == 4

\* (prefix + l).rstrip(): a line without content keeps no prefix
TextLine(indent, l) == [sp |-> IF l.t = "blank" THEN 0 ELSE IndentWidth * indent, line |-> l]

\* collect_lines without the removal of trailing spacers
KeepTrailingSpacers(children) == children

RECURSIVE DropTrailingSpacers(_)
\* while children and Tag.SPACER in children[-1].tags: children.pop()
DropTrailingSpacers(children) ==
    IF children # <<>> /\ "SPACER" \in children[Len(children)].tags
    THEN DropTrailingSpacers(SubSeq(children, 1, Len(children) - 1))
    ELSE children

RECURSIVE collect_lines(_, _)
RECURSIVE CollectAll(_, _)
\* the loop of collect_lines over the children
CollectAll(children, nested_indent) ==
    IF children = <<>>
    THEN <<>>
    ELSE collect_lines(Head(children), nested_indent) \o CollectAll(Tail(children), nested_indent)

\* collect_lines that indents the children of every node, the module included
collect_lines_nested(node, indent) ==
    [i \in DOMAIN node.lines |-> TextLine(indent, node.lines[i])]
    \o CollectAll(DropTrailingSpacers(node.children), indent + 1)

\* collect_lines of Stubber.output: the lines it appends
collect_lines(node, indent) ==
    [i \in DOMAIN node.lines |-> TextLine(indent, node.lines[i])]
    \o CollectAll(DropTrailingSpacers(node.children),
                  IF "MODULE" \in node.tags THEN indent ELSE indent + 1)

-----------------------------------------------------------------------------
(* Source.parse_module on a rendered text *)

RECURSIVE SplitEquals(_)
\* the token sequences between the "=" tokens
SplitEquals(toks) ==
    IF \E i \in DOMAIN toks : toks[i] = "="
    THEN <<BeforeEquals(toks)>> \o SplitEquals(SubSeq(toks, Len(BeforeEquals(toks)) + 2, Len(toks)))
    ELSE <<toks>>

\* the target a target text denotes: a name, or a compound target kept as its tokens
ParseTarget(toks) == IF Len(toks) = 1 THEN Name(toks[1]) ELSE [k |-> "toks", toks |-> toks]

\* the ast.Name ids of a compound target: the identifiers that follow no "."
TokenNames(toks) ==
    {toks[i] : i \in {j \in DOMAIN toks : toks[j] \notin Punctuation \cup {"1"}
                                          /\ (j = 1 \/ toks[j - 1] # ".")}}

\* the statement an assignment line denotes
ParseAssign(line) ==
    IF line.ann # NoExpr
    THEN IF Len(line.target) >= 2 /\ line.target[1] = "("
         THEN AnnAssign(ParseTarget(SubSeq(line.target, 2, Len(line.target) - 1)),
                        line.ann, line.val, 0)
         ELSE AnnAssign(ParseTarget(line.target), line.ann, line.val,
                        IF Len(line.target) = 1 THEN 1 ELSE 0)
    ELSE LET parts == SplitEquals(line.target)
         IN Assign([i \in DOMAIN parts |-> ParseTarget(parts[i])], line.val)

\* the position of the first item of a signature with the prefix pre, 0 when there is none
FirstItem(items, pre) ==
    IF \E i \in DOMAIN items : items[i].pre = pre
    THEN CHOOSE i \in DOMAIN items :
            items[i].pre = pre /\ \A j \in 1..(i - 1) : items[j].pre # pre
    ELSE 0

\* the ast.arguments a signature denotes
ParseArguments(items) ==
    LET slash == FirstItem(items, "/")
        star == FirstItem(items, "*")
        dstar == FirstItem(items, "**")
        last == IF dstar = 0 THEN Len(items) ELSE dstar - 1
        posend == IF star = 0 THEN last ELSE star - 1
        posonly == SubSeq(items, 1, slash - 1)
        regular == SubSeq(items, slash + 1, posend)
        kwonly == IF star = 0 THEN <<>> ELSE SubSeq(items, star + 1, last)
        AsArg(x) == Arg(x.name, x.ann)
        positional == posonly \o regular
    IN Arguments([i \in DOMAIN posonly |-> AsArg(posonly[i])],
                 [i \in DOMAIN regular |-> AsArg(regular[i])],
                 IF star # 0 /\ items[star].name # "" THEN AsArg(items[star]) ELSE NoExpr,
                 [i \in DOMAIN kwonly |-> AsArg(kwonly[i])],
                 [i \in DOMAIN kwonly |-> kwonly[i].dflt],
                 IF dstar # 0 THEN AsArg(items[dstar]) ELSE NoExpr,
                 LET withd == SelectSeq(positional, LAMBDA x : x.dflt # NoExpr)
                 IN [i \in DOMAIN withd |-> withd[i].dflt])

RECURSIVE SkipBlank(_)
SkipBlank(ls) == IF ls # <<>> /\ Head(ls).line.t = "blank" THEN SkipBlank(Tail(ls)) ELSE ls

RECURSIVE ParseBlock(_, _)
RECURSIVE ParseStmt(_, _, _)
RECURSIVE ParseIf(_, _)

\* an if or elif line at column sp with its block and what follows it at that column
ParseIf(ls, sp) ==
    LET body == ParseBlock(Tail(ls), sp + IndentWidth)
        after == SkipBlank(body.rest)
        more == after # <<>> /\ after[1].sp = sp
    IN IF more /\ after[1].line.t = "elif"
       THEN LET e == ParseIf(after, sp)
            IN [stmt |-> If(ls[1].line.test, body.stmts, <<e.stmt>>), rest |-> e.rest]
       ELSE IF more /\ after[1].line.t = "else"
       THEN LET b == ParseBlock(Tail(after), sp + IndentWidth)
            IN [stmt |-> If(ls[1].line.test, body.stmts, b.stmts), rest |-> b.rest]
       ELSE [stmt |-> If(ls[1].line.test, body.stmts, <<>>), rest |-> body.rest]

\* the statement that starts at the first line of ls, and the lines after it
ParseStmt(ls, sp, decorators) ==
    LET l == ls[1].line
        body == ParseBlock(Tail(ls), sp + IndentWidth)
        positional == SelectSeq(l.bases, LAMBDA b : "k" \in DOMAIN b)
        keywords == SelectSeq(l.bases, LAMBDA b : "k" \notin DOMAIN b)
    IN CASE l.t = "deco" -> ParseStmt(Tail(ls), sp, Append(decorators, l.e))
         [] l.t = "class" ->
                [stmt |-> ClassDef(l.name, positional, keywords, body.stmts, decorators),
                 rest |-> body.rest]
         [] l.t = "def" ->
                [stmt |-> FunctionDef(l.is_async, l.name, ParseArguments(l.args), body.stmts,
                                      decorators, l.returns),
                 rest |-> body.rest]
         [] l.t = "if" -> ParseIf(ls, sp)
         [] l.t = "import" -> [stmt |-> l.stmt, rest |-> Tail(ls)]
         [] l.t = "assign" -> [stmt |-> ParseAssign(l), rest |-> Tail(ls)]
         [] l.t = "doc" -> [stmt |-> Expr(l.raw), rest |-> Tail(ls)]
         [] l.t = "dots" -> [stmt |-> Expr(Dots), rest |-> Tail(ls)]
         [] l.t = "type" ->
                [stmt |-> [kind |-> "typealias", name |-> l.name, value |-> l.val],
                 rest |-> Tail(ls)]

\* the statements of the block at column sp that starts ls, and the lines after it
ParseBlock(ls, sp) ==
    LET here == SkipBlank(ls)
    IN IF here = <<>> \/ here[1].sp < sp
       THEN [stmts |-> <<>>, rest |-> here]
       ELSE LET one == ParseStmt(here, sp, <<>>)
                more == ParseBlock(one.rest, sp)
            IN [stmts |-> <<one.stmt>> \o more.stmts, rest |-> more.rest]

Module(body) == [kind |-> "module", body |-> body]

\* Source.parse_module
parse_module(txt) == Module(ParseBlock(txt, 0).stmts)


-----------------------------------------------------------------------------
(* Name discovery *)

RECURSIVE StmtNames(_)
RECURSIVE BodyNames(_)
\* the ids of the ast.Name nodes that ast.walk finds in the statements of a body
BodyNames(body) == UNION {StmtNames(body[i]) : i \in DOMAIN body}

ArgsNames(a) ==
    UNION {ExprNames(x.annotation) : x \in {a.posonlyargs[i] : i \in DOMAIN a.posonlyargs}
                                          \cup {a.args[i] : i \in DOMAIN a.args}
                                          \cup {a.kwonlyargs[i] : i \in DOMAIN a.kwonlyargs}
                                          \cup ({a.vararg, a.kwarg} \ {NoExpr})}
    \cup UNION {ExprNames(a.defaults[i]) : i \in DOMAIN a.defaults}
    \cup UNION {ExprNames(a.kw_defaults[i]) : i \in DOMAIN a.kw_defaults}

\* the ids of the ast.Name nodes that ast.walk finds in a statement
StmtNames(obj) ==
    CASE obj.kind = "import" -> {}
      [] obj.kind = "assign" ->
            UNION {IF obj.targets[i].k = "toks" THEN TokenNames(obj.targets[i].toks)
                   ELSE ExprNames(obj.targets[i]) : i \in DOMAIN obj.targets}
            \cup ExprNames(obj.annotation) \cup ExprNames(obj.value)
      [] obj.kind = "class" ->
            UNION {ExprNames(obj.bases[i]) : i \in DOMAIN obj.bases}
            \cup UNION {ExprNames(obj.keywords[i].value) : i \in DOMAIN obj.keywords}
            \cup UNION {ExprNames(obj.decorator_list[i]) : i \in DOMAIN obj.decorator_list}
            \cup BodyNames(obj.body)
      [] obj.kind = "func" ->
            UNION {ExprNames(obj.decorator_list[i]) : i \in DOMAIN obj.decorator_list}
            \cup ArgsNames(obj.args) \cup ExprNames(obj.returns) \cup BodyNames(obj.body)
      [] obj.kind = "expr" -> ExprNames(obj.value)
      [] obj.kind = "if" -> ExprNames(obj.test) \cup BodyNames(obj.body) \cup BodyNames(obj.orelse)
      [] obj.kind = "typealias" -> {obj.name} \cup ExprNames(obj.value)
      [] "handlers" \in DOMAIN obj ->
            BodyNames(obj.body) \cup BodyNames(obj.handlers) \cup BodyNames(obj.orelse)
            \cup BodyNames(obj.finalbody)
      [] "body" \in DOMAIN obj /\ "handlers" \notin DOMAIN obj -> BodyNames(obj.body)
      [] OTHER -> {}

\* Stubber.discover_any_names: the names it adds
discover_any_names(obj) == StmtNames(obj)

\* Stubber.discover_special_assign_names: the names it adds
discover_special_assign_names(obj) ==
    LET as_type ==
            IF obj.annotation # NoExpr /\ obj.value # NoExpr
               /\ unparse(obj.annotation) = Name("TypeAlias")
            THEN ExprNames(parse_expr(unparse_type_expr(obj.value)))
            ELSE {}
        targets_unparsed == unparse_assign_target(obj.targets, obj.simple, ~obj.ann)
        elts == IF obj.value.k \in {"list", "tuple"} THEN obj.value.elts ELSE <<>>
        as_all ==
            IF targets_unparsed = <<"__all__">>
            THEN {elts[i].s.id : i \in {j \in DOMAIN elts :
                                          as_string_constant(elts[j]) /\ elts[j].s.k = "name"}}
            ELSE {}
    IN as_type \cup as_all

\* Stubber.discover_special_assign_names raises: the rewritten value of a TypeAlias
\* assignment does not parse
discover_raises(ast_module) ==
    \E i \in DOMAIN ast_module.body :
        LET obj == ast_module.body[i]
        IN /\ obj.kind = "assign"
           /\ obj.annotation # NoExpr
           /\ obj.value # NoExpr
           /\ unparse(obj.annotation) = Name("TypeAlias")
           /\ ParseFails(unparse_type_expr(obj.value))

\* discover_module_names with the set created before the first statement is visited
discover_module_names_eager(ast_module) ==
    LET body == ast_module.body
        visited == {i \in DOMAIN body : body[i].kind # "import"}
    IN Some(UNION {discover_any_names(body[i])
                   \cup (IF body[i].kind = "assign"
                         THEN discover_special_assign_names(body[i])
                         ELSE {}) : i \in visited})

\* Stubber.discover_module_names: used_names when it returns (created by the first
\* call of _get_or_init_used_names)
discover_module_names(ast_module) ==
    LET body == ast_module.body
        visited == {i \in DOMAIN body : body[i].kind # "import"}
    IN IF visited = {}
       THEN NoSet
       ELSE Some(UNION {discover_any_names(body[i])
                        \cup (IF body[i].kind = "assign"
                              THEN discover_special_assign_names(body[i])
                              ELSE {}) : i \in visited})

-----------------------------------------------------------------------------
(* The two passes *)

\* Stubber.__init__ and, with discover_imports, discover_module_names
Stubber(ast_module, path, cfg, discover_imports) ==
    [config |-> cfg, file_path |-> path,
     used_names |-> IF discover_imports THEN discover_module_names(ast_module) ELSE NoSet]

\* Stubber.output on the result of the walk: the MODULE node, the text, whether
\* an assertion failed, the log; used_names is the attribute of the Stubber
Rendered(self, out) ==
    LET ok == ~out.err /\ Len(out.p.children) = 1
    IN [err |-> ~ok, log |-> out.log,
        tree |-> IF ok THEN out.p.children[1] ELSE Node(<<>>, {}),
        text |-> IF ok THEN collect_lines(out.p.children[1], 0) ELSE <<>>,
        used_names |-> self.used_names]

\* Stubber.output
output(self, ast_module) ==
    Rendered(self, stub(Walk(Node(<<>>, {}), FALSE, {}), ast_module, self))

\* _stub_content, given the module that the text inp parses to
stub_content(ast_module, path, cfg, discover_imports) ==
    IF discover_imports /\ discover_raises(ast_module)
    THEN [err |-> TRUE, log |-> {}, tree |-> Node(<<>>, {}), text |-> <<>>, used_names |-> NoSet]
    ELSE output(Stubber(ast_module, path, cfg, discover_imports), ast_module)

\* the discover_imports argument of the second pass of stubgen_single_file_src
discover_imports(path, cfg) ==
    ~PatternIsMatch(get_pattern(cfg.keep_unused_imports),
                    MatchContext({"MODULE"}, {"IMPORT"}, path, NoName, NoExpr, NoExpr, NoSet))


-----------------------------------------------------------------------------
(* The inputs of the model *)

RECURSIVE SeqsUpTo(_, _)
\* the sequences of at most n elements of S
SeqsUpTo(S, n) ==
    IF n = 0 THEN {<<>>}
    ELSE LET shorter == SeqsUpTo(S, n - 1)
         IN shorter \cup {Append(q, x) : q \in shorter, x \in S}

\* the modules of at least one and at most MaxStmts statements of S
Modules(S) == {Module(b) : b \in SeqsUpTo(S, MaxStmts) \ {<<>>}}

NoArgs == Arguments(<<>>, <<>>, NoExpr, <<>>, <<>>, NoExpr, <<>>)
Pass == Simple("pass")

\* the default policies of the model's configurations
BaseConfig ==
    [keep_unused_imports |-> PFalse,
     keep_variable_value |-> PFalse,
     keep_definitions |-> PTrue,
     add_implicit_none_return |-> PFalse,
     keep_trailing_docstrings |-> PFalse,
     flatten_if |-> PFalse,
     keep_if_statements |-> PTrue,
     add_redundant_ellipsis |-> PFalse]

\* Imports and the statements that use their names.
ImportStmts ==
    {Import(<<Alias(<<"a">>, NoName)>>),
     Import(<<Alias(<<"a">>, NoName), Alias(<<"b">>, NoName)>>),
     ImportFrom(<<Alias(<<"a">>, <<"a">>), Alias(<<"b">>, <<"y">>)>>),
     ImportFrom(<<Alias(<<"*">>, NoName)>>),
     Import(<<Alias(<<"b", "c">>, NoName)>>),
     AnnAssign(Name("x"), Name("a"), NoExpr, 1),
     AnnAssign(Name("x"), Name("b"), Num, 1),
     Assign(<<Name("z")>>, Name("y")),
     ClassDef("C", <<>>, <<>>, <<Import(<<Alias(<<"a">>, NoName)>>)>>, <<>>),
     ClassDef("C", <<Name("b")>>, <<>>, <<Pass>>, <<>>),
     Expr(Str(Name("doc")))}

ImportConfigs ==
    {[BaseConfig EXCEPT !.keep_unused_imports = u, !.keep_definitions = d] :
        u \in {PFalse, PTrue, parent_node_is({"MODULE"}), parent_node_is({"CLASS"})},
        d \in {PTrue, PNot(value_is({Dots}))}}

ImportInputs ==
    /\ inp \in Modules(ImportStmts)
    /\ \/ config \in ImportConfigs /\ relative_path = "file.py"
       \/ /\ config = [BaseConfig EXCEPT !.keep_unused_imports = file_path_is({"__init__.py"})]
          /\ relative_path \in {"file.py", "__init__.py"}

\* Annotations: quoted, nested, subscripted, and laid out over several lines.
RECURSIVE Quoted(_, _)
\* the expression e inside n nested string literals
Quoted(e, n) == IF n = 0 THEN e ELSE Str(Quoted(e, n - 1))

TypeExprs ==
    {Quoted(Name("a"), n) : n \in 1..MaxQuote}
    \cup {Sub("List", <<Str(Name("a"))>>),
          Sub("Literal", <<Str(Name("a"))>>),
          MultiLine(Sub("Literal", <<Str(Name("a"))>>)),
          Str(Junk)}

TypeStmts ==
    {AnnAssign(Name("x"), t, NoExpr, 1) : t \in TypeExprs}
    \cup {Import(<<Alias(<<"a">>, NoName)>>),
          ClassDef("C", <<>>, <<Keyword(NoName, Name("kw"))>>, <<Pass>>, <<>>),
          ClassDef("C", <<Name("b")>>, <<Keyword(<<"k">>, Name("a"))>>, <<Pass>>, <<>>),
          FunctionDef(FALSE, "f",
                      Arguments(<<>>, <<Arg("p", Str(Name("a")))>>, NoExpr, <<>>, <<>>, NoExpr, <<>>),
                      <<Pass>>, <<>>, Str(Name("b"))),
          Simple("return"),
          Block("asyncwith", <<AnnAssign(Name("x"), Name("a"), NoExpr, 1)>>)}

TypeInputs ==
    /\ inp \in Modules(TypeStmts)
    /\ config \in {BaseConfig, [BaseConfig EXCEPT !.keep_unused_imports = PTrue]}
    /\ relative_path = "file.py"

\* Definitions: classes, functions and variables, public and private.
Private == {<<"_P">>, <<"_g">>, <<"_y">>}

DefStmts ==
    {ClassDef("C", <<>>, <<>>, <<Pass>>, <<>>),
     ClassDef("_P", <<>>, <<>>, <<Assign(<<Name("x")>>, Num)>>, <<>>),
     ClassDef("C", <<>>, <<>>,
              <<FunctionDef(FALSE, "m", NoArgs, <<Pass>>, <<>>, NoExpr)>>, <<>>),
     ClassDef("C", <<>>, <<>>, <<AnnAssign(Name("x"), Name("int"), NoExpr, 1)>>, <<Name("d")>>),
     FunctionDef(FALSE, "f", NoArgs, <<Pass>>, <<>>, NoExpr),
     FunctionDef(TRUE, "_g", NoArgs, <<Expr(Str(Name("doc"))), Pass>>, <<>>, Name("int")),
     Assign(<<Name("x")>>, Num),
     Assign(<<Name("x")>>, Dots),
     AnnAssign(Name("_y"), Name("int"), Name("v"), 1),
     AnnAssign(Name("x"), Name("int"), NoExpr, 1),
     Assign(<<Attr(Name("o"), "y")>>, Num),
     Expr(Str(Name("doc"))),
     If(Name("T"), <<Assign(<<Name("x")>>, Num)>>, <<Pass>>),
     Block("try", <<Assign(<<Name("x")>>, Num)>>)}

DefConfigs ==
    {BaseConfig}
    \cup {[BaseConfig EXCEPT !.keep_definitions = p] :
            p \in {PFalse, PNot(name_is(Private)), PNot(node_is({"CLASS"}))}}
    \cup {[BaseConfig EXCEPT !.keep_variable_value = p] :
            p \in {PTrue, value_is({Num}), annotation_is({Name("int")})}}
    \cup {[BaseConfig EXCEPT !.add_redundant_ellipsis = p] :
            p \in {PTrue, PAnd(node_is({"CLASS"}), any_child_node_is({"ANNOTATED"}))}}
    \cup {[BaseConfig EXCEPT !.flatten_if = value_is({Name("T")})],
          [BaseConfig EXCEPT !.keep_if_statements = PFalse],
          [BaseConfig EXCEPT !.keep_trailing_docstrings = PTrue]}

DefInputs ==
    /\ inp \in Modules(DefStmts)
    /\ config \in DefConfigs
    /\ relative_path = "file.py"

\* Signatures.  The names of the parameters, by kind.
PosOnlyNames == <<"p", "q", "r", "s">>
ArgNames == <<"a", "b", "c", "d">>
KwOnlyNames == <<"k", "l", "m", "n">>

\* the first n of names as parameters; the first one is annotated
Params(names, n) ==
    [i \in 1..n |-> Arg(names[i], IF i = 1 THEN Str(Name("T")) ELSE NoExpr)]

ArgLists ==
    {Arguments(Params(PosOnlyNames, np), Params(ArgNames, na), va,
               Params(KwOnlyNames, nk), kd, kw, [i \in 1..nd |-> Num]) :
        np \in 0..1, na \in 0..MaxParams, va \in {NoExpr, Arg("v", NoExpr)},
        nk \in 0..MaxParams, kw \in {NoExpr, Arg("w", Name("int"))},
        nd \in 0..(MaxParams + 1), kd \in SeqsUpTo({NoExpr, Num}, MaxParams)}

SigModules ==
    {Module(<<FunctionDef(FALSE, "f", a, <<Pass>>, <<>>, NoExpr)>>) :
        a \in {x \in ArgLists : /\ Len(x.defaults) <= Len(x.posonlyargs) + Len(x.args)
                                /\ Len(x.kw_defaults) = Len(x.kwonlyargs)}}

SigInputs ==
    /\ inp \in SigModules
    /\ config = BaseConfig
    /\ relative_path = "file.py"

\* Functions: plain and async, with and without a return annotation, at module
\* level, in a class, and under an if statement in a class.
SelfArgs == Arguments(<<>>, <<Arg("self", NoExpr)>>, NoExpr, <<>>, <<>>, NoExpr, <<>>)

FuncStmts ==
    {FunctionDef(FALSE, "a", NoArgs, <<Pass>>, <<>>, NoExpr),
     FunctionDef(TRUE, "b", NoArgs, <<Pass>>, <<>>, Name("int")),
     FunctionDef(FALSE, "__init__", SelfArgs, <<Pass>>, <<>>, NoExpr),
     ClassDef("foo", <<>>, <<>>,
              <<FunctionDef(FALSE, "c", NoArgs, <<Pass>>, <<>>, NoExpr),
                FunctionDef(FALSE, "__init__", SelfArgs, <<Pass>>, <<>>, NoExpr)>>, <<>>),
     ClassDef("foo", <<>>, <<>>,
              <<FunctionDef(TRUE, "__init__", SelfArgs, <<Pass>>, <<>>, NoExpr),
                FunctionDef(FALSE, "d", NoArgs, <<Pass>>, <<>>, Str(Name("int")))>>, <<>>),
     ClassDef("foo", <<>>, <<>>,
              <<If(Name("T"),
                   <<FunctionDef(FALSE, "__init__", SelfArgs, <<Pass>>, <<>>, NoExpr)>>,
                   <<FunctionDef(TRUE, "e", NoArgs, <<Pass>>, <<>>, NoExpr)>>)>>, <<>>)}

FuncConfigs ==
    {[BaseConfig EXCEPT !.add_implicit_none_return = r, !.flatten_if = f] :
        r \in {PFalse, PTrue, PAnd(parent_node_is({"CLASS"}), name_is({<<"__init__">>}))},
        f \in {PFalse, value_is({Name("T")})}}

FuncInputs ==
    /\ inp \in Modules(FuncStmts)
    /\ config \in FuncConfigs
    /\ relative_path = "file.py"

\* Docstrings and other bare expressions, first in their scope and after statements
\* that emit a node or none.
DocStmts ==
    {Expr(Str(Name("a"))),
     Expr(Str(Name("b"))),
     Expr(Num),
     Pass,
     Assign(<<Name("x")>>, Num),
     AnnAssign(Name("_y"), Name("int"), NoExpr, 1),
     Import(<<Alias(<<"foo">>, NoName)>>),
     ClassDef("foo", <<>>, <<>>,
              <<Expr(Str(Name("a"))), Assign(<<Name("x")>>, Num), Expr(Str(Name("b")))>>, <<>>),
     ClassDef("e", <<>>, <<>>, <<Pass, Expr(Str(Name("c")))>>, <<>>),
     FunctionDef(FALSE, "bar", NoArgs,
                 <<Expr(Str(Name("a"))), Assign(<<Name("x")>>, Num), Expr(Str(Name("b")))>>,
                 <<>>, NoExpr)}

DocConfigs ==
    {[BaseConfig EXCEPT !.keep_unused_imports = PTrue,
                        !.keep_trailing_docstrings = t, !.keep_definitions = d] :
        t \in {PFalse, PTrue, node_is({"VARIABLE", "IMPORT"})},
        d \in {PTrue, PNot(name_is(Private))}}

DocInputs ==
    /\ inp \in Modules(DocStmts)
    /\ config \in DocConfigs
    /\ relative_path = "file.py"

\* If statements: a TYPE_CHECKING guard, an if/elif/else chain, nested, in a class,
\* with a docstring, and the statements around them.
IfStmts ==
    {If(Name("T"), <<Import(<<Alias(<<"a">>, NoName)>>)>>, <<>>),
     If(Name("foo"), <<Import(<<Alias(<<"b">>, NoName)>>)>>,
        <<If(Name("bar"), <<Import(<<Alias(<<"c">>, NoName)>>)>>,
             <<Import(<<Alias(<<"d">>, NoName)>>)>>)>>),
     If(Name("T"), <<Assign(<<Name("x")>>, Num)>>, <<Pass>>),
     If(Name("T"), <<If(Name("foo"), <<Import(<<Alias(<<"a">>, NoName)>>)>>, <<>>)>>, <<>>),
     If(Name("T"), <<Expr(Str(Name("a")))>>, <<>>),
     ClassDef("C", <<>>, <<>>,
              <<If(Name("T"), <<FunctionDef(FALSE, "f", NoArgs, <<Pass>>, <<>>, NoExpr)>>, <<>>)>>,
              <<>>),
     If(Name("foo"), <<Import(<<Alias(<<"b">>, NoName)>>)>>,
        <<If(Name("T"), <<Import(<<Alias(<<"c">>, NoName)>>)>>,
             <<If(Name("bar"), <<Import(<<Alias(<<"d">>, NoName)>>)>>, <<>>)>>)>>),
     Import(<<Alias(<<"e">>, NoName)>>),
     Expr(Str(Name("a")))}

IfConfigs ==
    {[BaseConfig EXCEPT !.keep_unused_imports = PTrue, !.flatten_if = f, !.keep_if_statements = k] :
        f \in {PFalse, PTrue, value_is({Name("T")})},
        k \in {PFalse, PTrue, parent_node_is({"MODULE"})}}

IfInputs ==
    /\ inp \in Modules(IfStmts)
    /\ config \in IfConfigs
    /\ relative_path = "file.py"

\* The statements of DISCOVER_NAMES (tests/generate/test_stubber.py): names in
\* imports, definitions, parameters, annotations, decorators, bases, `__all__`
\* lists, a TypeAlias value with quoted names, and attribute accesses.
NameStmts ==
    {Import(<<Alias(<<"a">>, NoName)>>),
     ImportFrom(<<Alias(<<"c">>, NoName)>>),
     Import(<<Alias(<<"some", "other">>, NoName)>>),
     FunctionDef(FALSE, "d", Arguments(<<>>, <<Arg("e", Name("f"))>>, NoExpr, <<>>, <<>>, NoExpr, <<>>),
                 <<Expr(Dots)>>, <<>>, Name("g")),
     Assign(<<Name("__all__")>>, ListOf(<<Str(Name("h")), Str(Name("i"))>>)),
     Assign(<<Name("__all__")>>, TupleOf(<<Str(Name("j")), Str(Name("k"))>>)),
     AnnAssign(Name("l"), Name("m"), NoExpr, 1),
     ClassDef("n", <<Name("o")>>, <<>>,
              <<FunctionDef(FALSE, "p", NoArgs, <<Pass>>, <<Name("r")>>, NoExpr)>>, <<Name("q")>>),
     AnnAssign(Name("Foo"), Name("TypeAlias"),
               Sub("Callable", <<ListOf(<<Str(Name("Bar"))>>), Str(Name("Baz"))>>), 1),
     Assign(<<Name("l")>>, Attr(Name("some"), "other")),
     Assign(<<Name("l")>>, Name("some2")),
     If(Name("T"), <<Import(<<Alias(<<"s">>, NoName)>>), AnnAssign(Name("u"), Name("v"), NoExpr, 1)>>,
        <<>>)}
\* DISCOVER_NAMES as a whole
DiscoverNames ==
    Module(<<Import(<<Alias(<<"a">>, NoName)>>),
             ImportFrom(<<Alias(<<"c">>, NoName)>>),
             Import(<<Alias(<<"some", "other">>, NoName)>>),
             Import(<<Alias(<<"some2", "other">>, NoName)>>),
             Import(<<Alias(<<"some3">>, NoName)>>),
             FunctionDef(FALSE, "d",
                         Arguments(<<>>, <<Arg("e", Name("f"))>>, NoExpr, <<>>, <<>>, NoExpr, <<>>),
                         <<Expr(Dots)>>, <<>>, Name("g")),
             Assign(<<Name("__all__")>>, ListOf(<<Str(Name("h")), Str(Name("i"))>>)),
             Assign(<<Name("__all__")>>, TupleOf(<<Str(Name("j")), Str(Name("k"))>>)),
             AnnAssign(Name("l"), Name("m"), NoExpr, 1),
             ClassDef("n", <<Name("o")>>, <<>>,
                      <<FunctionDef(FALSE, "p", NoArgs, <<Pass>>, <<Name("r")>>, NoExpr)>>,
                      <<Name("q")>>),
             AnnAssign(Name("Foo"), Name("TypeAlias"),
                       Sub("Callable", <<ListOf(<<Str(Name("Bar"))>>), Str(Name("Baz"))>>), 1),
             Assign(<<Name("l")>>, Attr(Name("some"), "other")),
             Assign(<<Name("l")>>, Name("some")),
             Assign(<<Name("l")>>, Name("some2")),
             Assign(<<Name("l")>>, Name("some3"))>>)

NameInputs ==
    /\ inp \in Modules(NameStmts) \cup {DiscoverNames}
    /\ config \in {[BaseConfig EXCEPT !.keep_variable_value = v] : v \in {PTrue, PFalse}}
    /\ relative_path = "file.py"

\* Assignments by the shape of their targets: a name, a chain of names, a tuple,
\* a list, a subscript, an attribute, and targets of the other shapes that hold
\* an attribute.
TargetStmts ==
    {Assign(<<Name("x")>>, Num),
     Assign(<<Name("x"), Name("y")>>, Num),
     Assign(<<TupleOf(<<Name("a"), Name("b")>>)>>, Num),
     Assign(<<ListOf(<<Name("a"), Name("b")>>)>>, Num),
     Assign(<<Sub("d", <<Name("k")>>)>>, Num),
     AnnAssign(Name("x"), Name("int"), NoExpr, 1),
     AnnAssign(Sub("d", <<Name("k")>>), Name("int"), Num, 0),
     Assign(<<Attr(Name("o"), "a")>>, Num),
     AnnAssign(Attr(Name("o"), "a"), Name("int"), Num, 0),
     Assign(<<Sub("d", <<Attr(Name("o"), "k")>>)>>, Num),
     AnnAssign(Sub("d", <<Attr(Name("o"), "k")>>), Name("int"), NoExpr, 0)}

TargetInputs ==
    /\ inp \in Modules(TargetStmts)
    /\ config \in {[BaseConfig EXCEPT !.keep_definitions = d, !.keep_variable_value = v] :
                      d \in {PTrue, PFalse, PNot(name_is({<<"x">>}))}, v \in {PFalse, PTrue}}
    /\ relative_path = "file.py"

\* Statements that wrap a body (try, with, loops), statements without output, and
\* the declarations in and around them.
BlockStmts ==
    {Try("try", <<Assign(<<Name("x")>>, Num), Import(<<Alias(<<"a">>, NoName)>>)>>,
         <<Assign(<<Name("z")>>, Num)>>, <<Assign(<<Name("w")>>, Num)>>,
         <<Assign(<<Name("v")>>, Num)>>),
     Try("trystar", <<Expr(Str(Name("doc"))), Assign(<<Name("x")>>, Num)>>,
         <<Import(<<Alias(<<"b">>, NoName)>>)>>, <<>>, <<>>),
     Block("with", <<AnnAssign(Name("x"), Name("int"), NoExpr, 1),
                     FunctionDef(FALSE, "f", NoArgs, <<Pass>>, <<>>, NoExpr)>>),
     Block("with", <<Try("try", <<Assign(<<Name("x")>>, Num)>>, <<Pass>>, <<>>, <<>>),
                     Assign(<<Name("y")>>, Num)>>),
     Block("asyncwith", <<Assign(<<Name("x")>>, Num)>>),
     ClassDef("C", <<>>, <<>>, <<Block("with", <<Assign(<<Name("x")>>, Num)>>)>>, <<>>),
     Assign(<<Name("y")>>, Num),
     Block("for", <<Assign(<<Name("x")>>, Num)>>),
     Block("while", <<Import(<<Alias(<<"a">>, NoName)>>)>>),
     Block("asyncfor", <<Pass>>),
     Expr(Call(Name("f"), <<>>)),
     Pass,
     Simple("assert"),
     Simple("delete"),
     Simple("raise"),
     Simple("augassign"),
     Simple("match"),
     Simple("return"),
     Simple("global")}

BlockInputs ==
    /\ inp \in Modules(BlockStmts)
    /\ config \in {BaseConfig, [BaseConfig EXCEPT !.keep_variable_value = PTrue]}
    /\ relative_path = "file.py"

\* Type alias statements at the top level and in a class body, among the
\* definitions that keep_definitions decides on.
AliasStmts ==
    {TypeAlias("X", Name("int")),
     TypeAlias("Y", Str(Name("a"))),
     TypeAlias("Z", MultiLine(Sub("Literal", <<Str(Name("a"))>>))),
     ClassDef("C", <<>>, <<>>, <<TypeAlias("X", Sub("List", <<Str(Name("a"))>>))>>, <<>>),
     ClassDef("D", <<>>, <<>>, <<Pass>>, <<>>),
     FunctionDef(FALSE, "f", NoArgs, <<Pass>>, <<>>, NoExpr),
     Assign(<<Name("x")>>, Num)}

AliasConfigs ==
    {[BaseConfig EXCEPT !.keep_definitions = d] :
        d \in {PTrue, PFalse, PNot(node_is({"TYPE_ALIAS"})), PNot(node_is({"CLASS"})),
               PNot(name_is({"X"}))}}

AliasInputs ==
    /\ inp \in Modules(AliasStmts)
    /\ config \in AliasConfigs
    /\ relative_path = "file.py"

\* Types in annotation position: string literals at the top, in subscripts, lists,
\* tuples and unions, under Literal and Annotated, with a content that parses and
\* with one that does not; TypeAlias assignments of such values.
RewriteExprs ==
    {Name("int"),
     Str(Name("a")),
     Sub("List", <<Str(Name("a"))>>),
     Sub("Dict", <<Str(Name("a")), Sub("List", <<Str(Name("b"))>>)>>),
     Sub("Literal", <<Str(Name("a")), Str(Name("b"))>>),
     Sub("List", <<Sub("Literal", <<Str(Name("a")), Sub("List", <<Str(Name("b"))>>)>>)>>),
     Sub("Annotated", <<Str(Name("a")), Str(Name("b")), Str(Name("c"))>>),
     Sub("Annotated", <<Sub("List", <<Str(Name("a"))>>), Sub("List", <<Str(Name("b"))>>)>>),
     Sub("Callable", <<ListOf(<<Str(Name("a"))>>), Str(Name("b"))>>),
     BitOr(Str(Name("a")), Sub("List", <<Str(Name("b"))>>)),
     TupleOf(<<Str(Name("a")), Name("b")>>),
     Call(Name("f"), <<Str(Name("a"))>>),
     Str(Sub("List", <<Str(Name("a"))>>)),
     Str(Junk),
     MultiLine(Str(Junk)),
     Sub("List", <<Str(Junk)>>)}

RewriteStmts ==
    {AnnAssign(Name("x"), t, NoExpr, 1) : t \in RewriteExprs}
    \cup {AnnAssign(Name("X"), Name("TypeAlias"), v, 1) :
             v \in {Str(Junk), Sub("List", <<Str(Junk), Str(Name("a"))>>), Str(Name("b"))}}
    \cup {Import(<<Alias(<<"a">>, NoName), Alias(<<"b">>, NoName)>>),
          FunctionDef(FALSE, "f",
                      Arguments(<<>>, <<Arg("p", Str(Junk))>>, NoExpr, <<>>, <<>>, NoExpr, <<>>),
                      <<Pass>>, <<>>, Sub("List", <<Str(Name("a"))>>))}

RewriteInputs ==
    /\ inp \in Modules(RewriteStmts)
    /\ config \in {BaseConfig, [BaseConfig EXCEPT !.keep_variable_value = PTrue]}
    /\ relative_path = "file.py"

\* no pattern is being parsed on its own
NoPattern ==
    /\ pattern_src = PyBool(FALSE)
    /\ match_ctx = MatchContext({}, {}, <<>>, NoName, NoExpr, NoExpr, NoSet)
    /\ parsed = Parsed(PFalse)
    /\ verdict = FALSE

\* no caller stubs several files
NoFiles == files = <<>>

\* no import member is being looked at on its own
NoImport ==
    /\ import_src = [stmt |-> Import(<<>>), module |-> <<>>, level |-> 0, used |-> {}]
    /\ imported = <<>>

\* generate of the mypy-backed generator is not running
NoMypy ==
    /\ walker = <<>>
    /\ walked = 0
    /\ roots = <<>>
    /\ cur = 0
    /\ step = "clean"
    /\ copied = 0
    /\ effects = <<>>
    /\ out_tree = <<>>

\* no call of stubgen_single_file_src is under way
NoCall ==
    /\ relative_path = "file.py"
    /\ inp = Module(<<>>)
    /\ text = <<>>
    /\ module = Module(<<>>)
    /\ tree = Node(<<>>, {})
    /\ used_names = NoSet
    /\ log = {}
    /\ discovered = FALSE
    /\ round = 0
    /\ stubbed = <<>>

\* no file is being stubbed
NoRun == config = BaseConfig /\ NoCall

\* the state before the first call
Fresh ==
    /\ pc = "start"
    /\ text = <<>>
    /\ module = Module(<<>>)
    /\ tree = Node(<<>>, {})
    /\ used_names = NoSet
    /\ log = {}
    /\ discovered = FALSE
    /\ round = 0
    /\ stubbed = <<>>
    /\ NoPattern
    /\ NoFiles
    /\ NoImport
    /\ NoMypy

\* the first call of stubgen_single_file_src on each family of inputs
InitImports == ImportInputs /\ Fresh
InitTypes == TypeInputs /\ Fresh
InitDefs == DefInputs /\ Fresh
InitSig == SigInputs /\ Fresh
InitFuncs == FuncInputs /\ Fresh
InitDocs == DocInputs /\ Fresh
InitIfs == IfInputs /\ Fresh
InitNames == NameInputs /\ Fresh
InitTargets == TargetInputs /\ Fresh
InitBlocks == BlockInputs /\ Fresh
InitRewrite == RewriteInputs /\ Fresh
InitAliases == AliasInputs /\ Fresh

Init == InitImports \/ InitTypes \/ InitDefs \/ InitSig \/ InitFuncs \/ InitDocs \/ InitIfs
        \/ InitNames

-----------------------------------------------------------------------------
(* stubgen_single_file_src *)

\* the first pass: _stub_content(inp, relative_path, config)
Pass1 ==
    /\ pc = "start"
    /\ \E r \in {stub_content(inp, relative_path, config, FALSE)} :
          /\ module' = inp
          /\ tree' = r.tree
          /\ text' = r.text
          /\ used_names' = r.used_names
          /\ log' = r.log
          /\ pc' = IF r.err THEN "raised" ELSE "pass1"
    /\ discovered' = FALSE
    /\ UNCHANGED <<config, relative_path, inp, round, stubbed>>
    /\ UNCHANGED <<pattern_vars, files, import_vars, mypy_vars>>

\* the second pass: _stub_content(stubbed, relative_path, config, discover_imports)
Pass2 ==
    /\ pc = "pass1"
    /\ \E d \in {discover_imports(relative_path, config)} :
       \E m \in {parse_module(text)} :
       \E r \in {stub_content(m, relative_path, config, d)} :
          /\ module' = m
          /\ tree' = r.tree
          /\ text' = r.text
          /\ used_names' = r.used_names
          /\ log' = r.log
          /\ discovered' = d
          /\ pc' = IF r.err THEN "raised" ELSE "done"
          /\ round' = IF r.err THEN round ELSE round + 1
          /\ stubbed' = IF r.err THEN stubbed ELSE Append(stubbed, r.text)
    /\ UNCHANGED <<config, relative_path, inp>>
    /\ UNCHANGED <<pattern_vars, files, import_vars, mypy_vars>>

\* test_idempotence: the result is stubbed again
Restub ==
    /\ pc = "done"
    /\ round < MaxRounds
    /\ inp' = parse_module(text)
    /\ pc' = "start"
    /\ UNCHANGED <<config, relative_path, text, module, tree, used_names, log, discovered,
                   round, stubbed>>
    /\ UNCHANGED <<pattern_vars, files, import_vars, mypy_vars>>

Next == Pass1 \/ Pass2 \/ Restub

Spec == Init /\ [][Next]_vars

\* the same program on each family of inputs
SpecImports == InitImports /\ [][Next]_vars
SpecTypes == InitTypes /\ [][Next]_vars
SpecDefs == InitDefs /\ [][Next]_vars
SpecSig == InitSig /\ [][Next]_vars
SpecFuncs == InitFuncs /\ [][Next]_vars
SpecDocs == InitDocs /\ [][Next]_vars
SpecIfs == InitIfs /\ [][Next]_vars
SpecNames == InitNames /\ [][Next]_vars
SpecTargets == InitTargets /\ [][Next]_vars
SpecBlocks == InitBlocks /\ [][Next]_vars
SpecRewrite == InitRewrite /\ [][Next]_vars
SpecAliases == InitAliases /\ [][Next]_vars

-----------------------------------------------------------------------------
(* collect_lines on its own *)

\* a node with one line, and blocks of such nodes and spacers
Leaf == Node(<<EllipsisLine>>, {"ELLIPSIS"})
InnerBlocks ==
    {[Node(<<DefLine(FALSE, "f", <<>>, NoExpr)>>, {"FUNCTION"}) EXCEPT !.children = kids] :
        kids \in SeqsUpTo({Leaf, Spacer}, MaxChildren - 1)}
\* a class that ends in a spacer and holds a function that ends in two spacers
OuterBlock ==
    [Node(<<ClassLine("C", <<>>)>>, {"CLASS"}) EXCEPT !.children =
        <<[Node(<<DefLine(FALSE, "f", <<>>, NoExpr)>>, {"FUNCTION"}) EXCEPT !.children =
              <<Leaf, Spacer, Spacer>>],
          Spacer>>]
RenderTrees ==
    {[Node(<<>>, {"MODULE"}) EXCEPT !.children = kids] :
        kids \in SeqsUpTo({Leaf, Spacer, OuterBlock} \cup InnerBlocks, MaxChildren)}

InitRender ==
    /\ tree \in RenderTrees
    /\ pc = "render"
    /\ text = <<>>
    /\ config = BaseConfig
    /\ relative_path = "file.py"
    /\ inp = Module(<<>>)
    /\ module = Module(<<>>)
    /\ used_names = NoSet
    /\ log = {}
    /\ discovered = FALSE
    /\ round = 0
    /\ stubbed = <<>>
    /\ NoPattern
    /\ NoFiles
    /\ NoImport
    /\ NoMypy

\* collect_lines(out, 0) of Stubber.output
Render ==
    /\ pc = "render"
    /\ text' = collect_lines(tree, 0)
    /\ pc' = "rendered"
    /\ UNCHANGED <<config, relative_path, inp, module, tree, used_names, log, discovered,
                   round, stubbed>>
    /\ UNCHANGED <<pattern_vars, files, import_vars, mypy_vars>>

SpecRender == InitRender /\ [][Render]_vars

-----------------------------------------------------------------------------
(* parse_pattern and Pattern.is_match on their own *)

\* the regular expressions of the tests
re_class == {Lits(TagName["CLASS"])}
re_if == {Lits(TagName["IF"])}
re_class_or_if == re_class \cup re_if
re_cl_ss == {<<Lit("c"), Lit("l"), AnyChar, Lit("s"), Lit("s")>>}
re_i_any == {<<Lit("i"), AnyChar>>}
re_module == {Lits(TagName["MODULE"])}
re_mod_any_e == {<<Lit("m"), Lit("o"), Lit("d"), Star(AnyChar), Lit("e")>>}
re_anything == {<<Star(AnyChar)>>}
re_empty == {<<>>}
re_private == {<<Lit("_"), NotChar("_"), Star(AnyChar)>>}
re_q_x == {<<Lit("q"), AnyChar, Lit("x")>>}
re_foo_slash_any == {Lits(t_foo) \o <<Lit("/"), Star(AnyChar)>>}
re_any_slash_bar == {<<Star(AnyChar), Lit("/")>> \o Lits(t_bar)}
re_slash_foo_any == {<<Lit("/")>> \o Lits(t_foo) \o <<Star(AnyChar)>>}
re_foo_slash_private == {Lits(t_foo) \o <<Lit("/"), Lit("_"), Star(AnyChar)>>}
re_any_str == {<<AnyChar, Lit("s"), Lit("t"), Lit("r")>>}
re_any_Data == {<<Star(AnyChar), Lit("D"), Lit("a"), Lit("t"), Lit("a")>>}
OneChar(c) == {<<Lit(c)>>}

Q(fn, regex) == QueryCall(Name(fn), <<Str(regex)>>, <<>>)

\* test_pattern_matches, test_pattern_no_matches, test_eval_pattern2: tag queries
TagSources ==
    {Q(fn, regex) : fn \in {"node_is", "parent_node_is"},
                    regex \in {re_class, re_if, re_class_or_if, re_cl_ss, re_i_any,
                               OneChar("a"), OneChar("o"), re_anything, re_empty}}
    \cup {Q("any_child_node_is", regex) : regex \in {re_module, re_mod_any_e, OneChar("z")}}
\* the same tests: queries of the name, the path, the annotation and the value
FieldSources ==
    {Q("name_is", regex) : regex \in {{Lits(t_qux)}, re_q_x, OneChar("u"), OneChar("q"),
                                      {Lits(t_foo)}, re_private, re_anything}}
    \cup {Q("file_path_is", regex) : regex \in {{Lits(t_foo_bar)}, re_any_slash_bar, re_foo_slash_any,
                                                re_foo_slash_private, re_slash_foo_any,
                                                {Lits(t_bar)}, re_anything}}
    \cup {Q("annotation_is", regex) : regex \in {{Lits(t_ref_str)}, re_any_str, OneChar("x"),
                                                 OneChar("s"), re_anything}}
    \cup {Q("value_is", regex) : regex \in {{Lits(t_PhantomData)}, re_any_Data, OneChar("y"),
                                            OneChar("D"), re_anything}}
\* test_parse_valid_pattern2: constants and combinations
CombinedSources ==
    {PyBool(TRUE), PyBool(FALSE), BoolLit(TRUE), BoolLit(FALSE),
     NotOp(BoolLit(TRUE)), NotOp(OrOp(BoolLit(TRUE), BoolLit(FALSE))),
     OrOp(NotOp(BoolLit(TRUE)), NotOp(BoolLit(FALSE))),
     AndOp(Q("node_is", re_class), Q("name_is", {Lits(t_foo)})),
     OrOp(Q("node_is", re_class), Q("name_is", {Lits(t_foo)})),
     OrOp(AndOp(Q("node_is", re_anything), Q("name_is", re_anything)), Q("file_path_is", re_anything)),
     OrOp(Q("node_is", re_anything), AndOp(Q("name_is", re_anything), Q("file_path_is", re_anything)))}
\* test_parse_invalid_pattern2, and the same mistakes inside a combination
InvalidCalls ==
    {QueryCall(Attr(Name("foo"), "bar"), <<Str(re_empty)>>, <<>>),
     QueryCall(Name("bar"), <<Str(re_empty)>>, <<>>),
     QueryCall(Name("node_is"), <<Str(re_empty)>>, <<[arg |-> "x", value |-> Name("y")]>>),
     QueryCall(Name("node_is"), <<Num>>, <<>>),
     QueryCall(Name("name_is"), <<Name("foo")>>, <<>>),
     QueryCall(Name("node_is"), <<>>, <<>>),
     QueryCall(Name("value_is"), <<Str(re_empty), Str(re_empty)>>, <<>>)}
InvalidSources ==
    {Num, Str(re_anything)} \cup InvalidCalls
    \cup {NotOp(e) : e \in {Num} \cup InvalidCalls}
    \cup {AndOp(BoolLit(TRUE), e) : e \in {Num} \cup InvalidCalls}
    \cup {OrOp(e, Q("node_is", re_class)) : e \in {Str(re_anything)} \cup InvalidCalls}
PatternSources == TagSources \cup FieldSources \cup CombinedSources \cup InvalidSources

\* the contexts of the tests: CONTEXT of test_config.py and those of test_eval_pattern2
TagSets == SUBSET {"IF", "CLASS", "MODULE"}
Contexts ==
    {MatchContext(parent_tags, tags, file_path, name, fields[1], fields[2], child_tags) :
        parent_tags \in {{}, {"CLASS"}, {"IF", "MODULE"}},
        tags \in TagSets,
        file_path \in {t_foo_bar, t__foo_bar, t__bar_foo},
        name \in {NoName, t_qux, t_foo, t_bar, t__hello, t___foo},
        fields \in {<<NoExpr, NoExpr>>, <<Text(t_ref_str), Text(t_PhantomData)>>},
        child_tags \in {NoSet, Some({"MODULE"})}}

InitPatterns ==
    /\ pattern_src \in PatternSources
    /\ match_ctx \in Contexts
    /\ parsed = Parsed(PFalse)
    /\ verdict = FALSE
    /\ pc = "pattern"
    /\ NoRun
    /\ NoFiles
    /\ NoImport
    /\ NoMypy

\* matcher, _ = parse_pattern(pattern)
ParsePattern ==
    /\ pc = "pattern"
    /\ parsed' = parse_pattern(pattern_src)
    /\ pc' = IF parsed'.ok THEN "parsed" ELSE "ValueError"
    /\ UNCHANGED <<pattern_src, match_ctx, verdict>>
    /\ UNCHANGED <<stub_vars, files, import_vars, mypy_vars>>

\* matcher(ctx)
Evaluate ==
    /\ pc = "parsed"
    /\ verdict' = PatternIsMatch(parsed.matcher, match_ctx)
    /\ pc' = "evaluated"
    /\ UNCHANGED <<pattern_src, match_ctx, parsed>>
    /\ UNCHANGED <<stub_vars, files, import_vars, mypy_vars>>

NextPatterns == ParsePattern \/ Evaluate

SpecPatterns == InitPatterns /\ [][NextPatterns]_vars

-----------------------------------------------------------------------------
(* get_imported_name and keep_import on their own *)

\* components of a dotted module name in `import a.b.c.X`
MaxDots == 4
\* leading dots of a relative `from .... import X`
MaxLevel == 4

\* the import statements of test_get_importesd_name and test_is_rexport, with one
\* member each: `import a.b.X`, `import a.b.X as Y`, `from .foo.bar import X`,
\* `from ... import X as X`, `from a.b import *`
ImportMembers ==
    {[stmt |-> Import(<<Alias(name, asname)>>), module |-> <<>>, level |-> 0] :
        name \in SeqsUpTo({"a", "b", "X"}, MaxDots) \ {<<>>},
        asname \in {NoName, <<"X">>, <<"Y">>}}
    \cup {[stmt |-> ImportFrom(<<member>>), module |-> from[1], level |-> from[2]] :
            member \in {Alias(<<name>>, asname) : name \in {"a", "X"},
                                                  asname \in {NoName, <<"X">>, <<"Y">>}}
                       \cup {Alias(<<"*">>, NoName)},
            from \in ({<<"foo", "bar">>, <<"a", "b", "c">>} \X (0..MaxLevel))
                     \cup ({<<>>} \X (1..MaxLevel))}

InitMembers ==
    /\ \E m \in ImportMembers, used \in SUBSET {"a", "X"} :
          import_src = [stmt |-> m.stmt, module |-> m.module, level |-> m.level, used |-> used]
    /\ imported = <<>>
    /\ pc = "import"
    /\ NoRun
    /\ NoPattern
    /\ NoFiles
    /\ NoMypy

\* the body of the loop of stub_import for the member: name =
\* self.get_imported_name(alias_name), and keep_import for a Stubber whose
\* used_names is the set used
ImportMember ==
    /\ pc = "import"
    /\ imported' = <<[name |-> get_imported_name(import_src.stmt.names[1]),
                      keep |-> keep_import([config |-> config, file_path |-> relative_path,
                                            used_names |-> Some(import_src.used)],
                                           import_src.stmt.names[1])]>>
    /\ pc' = "imported"
    /\ UNCHANGED <<import_src, stub_vars, pattern_vars, files, mypy_vars>>

SpecMembers == InitMembers /\ [][ImportMember]_vars

-----------------------------------------------------------------------------
(* Several files stubbed with one config *)

\* files that one caller stubs, their calls interleaved
MaxFiles == 3

\* a file before its first pass: no Source and no Stubber exist for it
FileStart(m, path) ==
    [inp |-> m, path |-> path, pc |-> "start", source |-> Module(<<>>), stubber |-> <<>>,
     text |-> <<>>, out |-> <<>>]

\* a file that uses its import, one that does not, and one whose class header
\* holds **kw, on which stub_class raises
FileModules ==
    {Module(<<Import(<<Alias(<<"a">>, NoName)>>), AnnAssign(Name("x"), Name("a"), NoExpr, 1)>>),
     Module(<<Import(<<Alias(<<"a">>, NoName)>>), AnnAssign(Name("y"), Name("b"), NoExpr, 1)>>),
     Module(<<Import(<<Alias(<<"a">>, NoName)>>),
              ClassDef("C", <<>>, <<Keyword(NoName, Name("kw"))>>, <<Pass>>, <<>>)>>)}
FileConfigs == {[BaseConfig EXCEPT !.keep_unused_imports = u] : u \in {PFalse, PTrue}}

InitFiles ==
    /\ files \in [1..MaxFiles -> {FileStart(m, "file.py") : m \in FileModules}]
    /\ config \in FileConfigs
    /\ pc = "files"
    /\ NoCall
    /\ NoPattern
    /\ NoImport
    /\ NoMypy

\* the names of the sets that the Stubbers of fs hold
NamesHeld(fs) ==
    UNION {fs[g].stubber[1].used_names[1] :
              g \in {h \in DOMAIN fs : fs[h].stubber # <<>> /\ fs[h].stubber[1].used_names # NoSet}}

\* a Stubber whose used_names is a set that all Stubbers share
new_stubber_shared_names(fs, f, cfg) ==
    [config |-> cfg, file_path |-> fs[f].path,
     used_names |-> IF NamesHeld(fs) = {} THEN NoSet ELSE Some(NamesHeld(fs))]
\* Stubber(source, config): Stubber.__init__ with used_names left at its default
new_stubber(fs, f, cfg) == [config |-> cfg, file_path |-> fs[f].path, used_names |-> NoSet]

\* discover_module_names on a Stubber: _get_or_init_used_names creates the set
\* only if the Stubber has none, and the names are added to it
discover_into(self, ast_module) ==
    LET found == discover_module_names(ast_module)
    IN IF self.used_names = NoSet THEN found
       ELSE IF found = NoSet THEN self.used_names
       ELSE Some(self.used_names[1] \cup found[1])

\* whether the current call of file f is the second pass
SecondPass(f) == files[f].pc \in {"new2", "found"}

\* a _stub_content call for file f begins: its Source parses the text, and its
\* Stubber is created
Construct(f) ==
    /\ pc = "files"
    /\ files[f].pc \in {"start", "pass1"}
    /\ files' = [files EXCEPT
                    ![f].source = IF files[f].pc = "start" THEN files[f].inp
                                  ELSE parse_module(files[f].text),
                    ![f].stubber = <<new_stubber(files, f, config)>>,
                    ![f].pc = IF files[f].pc = "start" THEN "new1" ELSE "new2"]
    /\ UNCHANGED <<pc, stub_vars, pattern_vars, import_vars, mypy_vars>>

\* if discover_imports: stubber.discover_module_names(ast_module)
Discover(f) ==
    /\ pc = "files"
    /\ files[f].pc = "new2"
    /\ discover_imports(files[f].path, config)
    /\ files' = [files EXCEPT
                    ![f].stubber = <<[files[f].stubber[1] EXCEPT
                                        !.used_names = discover_into(files[f].stubber[1],
                                                                     files[f].source)]>>,
                    ![f].pc = IF discover_raises(files[f].source) THEN "raised" ELSE "found"]
    /\ UNCHANGED <<pc, stub_vars, pattern_vars, import_vars, mypy_vars>>

\* return stubber.output(ast_module): the first pass leaves the text that the
\* second parses, the second the result; an exception ends the file's stubbing
Output(f) ==
    /\ pc = "files"
    /\ \/ files[f].pc \in {"new1", "found"}
       \/ files[f].pc = "new2" /\ ~discover_imports(files[f].path, config)
    /\ \E r \in {output(files[f].stubber[1], files[f].source)} :
          files' = [files EXCEPT
                      ![f].text = IF r.err \/ SecondPass(f) THEN @ ELSE r.text,
                      ![f].out = IF r.err \/ ~SecondPass(f) THEN @ ELSE r.text,
                      ![f].pc = IF r.err THEN "raised"
                                ELSE IF SecondPass(f) THEN "done" ELSE "pass1"]
    /\ UNCHANGED <<pc, stub_vars, pattern_vars, import_vars, mypy_vars>>

NextFiles == \E f \in 1..MaxFiles : Construct(f) \/ Discover(f) \/ Output(f)

SpecFiles == InitFiles /\ [][NextFiles]_vars

-----------------------------------------------------------------------------
(* Idempotence and termination *)

\* C1: stubbing a generated stub again changes nothing: each result of
\* stubgen_single_file_src equals the result of the call that produced its input
C1_Idempotent == \A i \in 1..(Len(stubbed) - 1) : stubbed[i + 1] = stubbed[i]

\* a generated stub has been stubbed again, and the annotation of a variable changed
C1_Restubbed ==
    /\ Len(stubbed) = 2
    /\ \E i \in DOMAIN stubbed[1] :
          /\ stubbed[1][i].line.t = "assign"
          /\ i \in DOMAIN stubbed[2]
          /\ stubbed[2][i].line.t = "assign"
          /\ stubbed[2][i].line.ann # stubbed[1][i].line.ann

\* C2: both passes end with an output text for every module: no pass raises
C2_NeverRaises == pc # "raised"

\* a pass has raised on a class whose keyword list holds **kwargs
C2_Raised ==
    /\ pc = "raised"
    /\ \E i \in DOMAIN module.body :
          /\ module.body[i].kind = "class"
          /\ \E j \in DOMAIN module.body[i].keywords : module.body[i].keywords[j].arg = NoName

-----------------------------------------------------------------------------
(* Import pruning *)

\* the import statements of a body, in source order
SourceImports(body) == SelectSeq(body, LAMBDA s : s.kind = "import")

\* the import statements that the children of a node hold, in order
EmittedImports(node) ==
    LET kids == SelectSeq(node.children, LAMBDA n : "IMPORT" \in n.tags)
    IN [i \in DOMAIN kids |-> kids[i].lines[1].stmt]

\* the name that an import member binds in the importing scope
BoundName(a) == IF a.asname # NoName THEN a.asname[1] ELSE a.name[1]

IsWildcard(a) == a.name = <<"*">>
IsSelfReexport(a) == a.asname # NoName /\ a.asname = a.name

\* the import statements of a body cut down to their wildcards, the members that
\* bind a name of used, and the self-re-exports; an emptied statement is left out
Filtered(body, used) ==
    LET imports == SourceImports(body)
        cut == [i \in DOMAIN imports |->
                  [imports[i] EXCEPT !.names =
                      SelectSeq(@, LAMBDA a : IsWildcard(a) \/ BoundName(a) \in used
                                              \/ IsSelfReexport(a))]]
    IN SelectSeq(cut, LAMBDA st : st.names # <<>>)

\* the unused-import policy does not match an import whose parent has the tags ptags
PolicySilent(ptags) ==
    ~PatternIsMatch(config.keep_unused_imports,
                    MatchContext(ptags, {"IMPORT"}, relative_path, NoName, NoExpr, NoExpr, NoSet))

\* the classes of the module body and the CLASS nodes of the tree
SourceClasses == SelectSeq(module.body, LAMBDA st : st.kind = "class")
ClassNodes == SelectSeq(tree.children, LAMBDA n : "CLASS" \in n.tags)

\* C3: in a pass with a usage set, the imports of a scope for which the
\* unused-import policy does not match are emitted cut down to wildcards, used
\* names and self-re-exports, emptied statements left out, in source order
C3_ImportFilter ==
    (pc \in {"pass1", "done"} /\ used_names # NoSet) =>
        /\ PolicySilent({"MODULE"}) =>
              EmittedImports(tree) = Filtered(module.body, used_names[1])
        /\ (PolicySilent({"CLASS"}) /\ Len(ClassNodes) = Len(SourceClasses)) =>
              \A i \in DOMAIN SourceClasses :
                  EmittedImports(ClassNodes[i]) = Filtered(SourceClasses[i].body, used_names[1])

\* a two-member import has lost one member, and a re-export has been kept
C3_Pruned ==
    /\ pc = "done"
    /\ used_names # NoSet
    /\ PolicySilent({"MODULE"})
    /\ \E i \in DOMAIN SourceImports(module.body) :
          LET st == SourceImports(module.body)[i]
          IN /\ Len(st.names) = 2
             /\ \E j \in DOMAIN st.names : IsSelfReexport(st.names[j])
             /\ \E j \in DOMAIN st.names : BoundName(st.names[j]) \notin used_names[1]
                                            /\ ~IsSelfReexport(st.names[j])
    /\ Len(EmittedImports(tree)) = 1
    /\ Len(EmittedImports(tree)[1].names) = 1

\* the names that the non-import statements of the final stub refer to
FinalNames == BodyNames(parse_module(text).body)

\* C4: with pruning enabled, every import member of the final stub that is neither
\* a wildcard nor a self-re-export binds a name that a non-import statement of the
\* final stub refers to
C4_SurvivorsAreUsed ==
    (pc = "done" /\ PolicySilent({"MODULE"})) =>
        \A i \in DOMAIN EmittedImports(tree) :
            \A j \in DOMAIN EmittedImports(tree)[i].names :
                LET a == EmittedImports(tree)[i].names[j]
                IN IsWildcard(a) \/ IsSelfReexport(a) \/ BoundName(a) \in FinalNames

\* a usage set exists, and an import of the final stub binds a name that nothing
\* of the final stub refers to
C4_DeadImportKept ==
    /\ pc = "done"
    /\ PolicySilent({"MODULE"})
    /\ used_names # NoSet
    /\ \E i \in DOMAIN EmittedImports(tree) :
          \E j \in DOMAIN EmittedImports(tree)[i].names :
              LET a == EmittedImports(tree)[i].names[j]
              IN ~IsWildcard(a) /\ ~IsSelfReexport(a) /\ BoundName(a) \notin FinalNames

\* the unused-import policy matches an import in every context of this file
BlanketAllow ==
    \A ptags \in {{"MODULE"}, {"CLASS"}, {"FUNCTION"}, {"IF"}} : ~PolicySilent(ptags)

\* C5: pass 1 discovers nothing and removes no import; pass 2 runs the discovery
\* unless the unused-import policy is a blanket allow
C5_Discovery ==
    /\ pc = "pass1" =>
          /\ ~discovered
          /\ used_names = NoSet
          /\ EmittedImports(tree) = SourceImports(module.body)
    /\ pc = "done" => (discovered <=> ~BlanketAllow)

\* pass 2 ran without discovery under a policy that does not match in a class,
\* and an import in a class body was kept
C5_NotDiscovered ==
    /\ pc = "done"
    /\ ~discovered
    /\ PolicySilent({"CLASS"})
    /\ \E i \in DOMAIN ClassNodes : EmittedImports(ClassNodes[i]) # <<>>

-----------------------------------------------------------------------------
(* Bodies and their ellipsis *)

\* the name on the header line of a CLASS or FUNCTION node, None for other nodes
HeaderName(node) ==
    IF node.tags \cap {"CLASS", "FUNCTION"} # {}
    THEN <<node.lines[Len(node.lines)].name>>
    ELSE NoName

\* the add_redundant_ellipsis policy matches the node, given the tags of its parent
\* and its children other than the ellipsis
RedundantEllipsis(node, ptags, others) ==
    PatternIsMatch(config.add_redundant_ellipsis,
                   MatchContext(ptags, node.tags, relative_path, HeaderName(node), NoExpr, NoExpr,
                                Some(UNION {others[i].tags : i \in DOMAIN others})))

RECURSIVE EllipsisRule(_, _)
\* every class, function and if/elif/else node at or below node has one ellipsis
\* child when it has no other child or the policy matches, and none otherwise
EllipsisRule(node, ptags) ==
    LET dots == SelectSeq(node.children, LAMBDA n : "ELLIPSIS" \in n.tags)
        others == SelectSeq(node.children, LAMBDA n : "ELLIPSIS" \notin n.tags)
    IN /\ node.tags \cap {"CLASS", "FUNCTION", "IF"} # {} =>
            IF others = <<>>
            THEN Len(dots) = 1
            ELSE Len(dots) = (IF RedundantEllipsis(node, ptags, others) THEN 1 ELSE 0)
       /\ \A i \in DOMAIN node.children : EllipsisRule(node.children[i], node.tags)

\* C6: an emitted body without emitted children holds exactly one ellipsis; a body
\* with emitted children holds one more ellipsis exactly when add_redundant_ellipsis
\* matches, and none otherwise
C6_OneEllipsis == pc \in {"pass1", "done"} => EllipsisRule(tree, {})

\* the tree holds a class with a declaration followed by a redundant ellipsis, and
\* a body whose only child is its ellipsis
C6_BothKinds ==
    /\ pc = "done"
    /\ \E i \in DOMAIN tree.children :
          LET n == tree.children[i]
          IN /\ "CLASS" \in n.tags
             /\ Len(n.children) = 2
             /\ "VARIABLE" \in n.children[1].tags
             /\ "ELLIPSIS" \in n.children[2].tags
    /\ \E i \in DOMAIN tree.children :
          LET n == tree.children[i]
          IN /\ n.tags \cap {"CLASS", "FUNCTION", "IF"} # {}
             /\ Len(n.children) = 1
             /\ "ELLIPSIS" \in n.children[1].tags

-----------------------------------------------------------------------------
(* Declarations and the keep policies *)

\* the name of the variable an assignment declares
VariableName(st) == BeforeEquals(unparse_assign_target(st.targets, st.simple, ~st.ann))

\* obj.attr = v: a mutation, not a declaration
IsMutation(st) ==
    \E i \in DOMAIN unparse_assign_target(st.targets, st.simple, ~st.ann) :
        unparse_assign_target(st.targets, st.simple, ~st.ann)[i] = "."

AnnotationText(st) == IF st.annotation # NoExpr THEN unparse_type_expr(st.annotation) ELSE NoExpr
ValueText(st) == IF st.value # NoExpr THEN unparse(st.value) ELSE NoExpr

\* the tags of the node of a variable declaration
VariableTags(st) ==
    {"VARIABLE"} \cup (IF st.annotation # NoExpr THEN {"ANNOTATED"} ELSE {})
                 \cup (IF st.value # NoExpr THEN {"ASSIGNED"} ELSE {})

\* the context in which the policies see a class, function or variable declaration
\* whose parent has the tags ptags
DeclContext(st, ptags) ==
    CASE st.kind = "class" ->
            MatchContext(ptags, {"CLASS"}, relative_path, <<st.name>>, NoExpr, NoExpr, NoSet)
      [] st.kind = "func" ->
            MatchContext(ptags, {"FUNCTION"}, relative_path, <<st.name>>, NoExpr, NoExpr, NoSet)
      [] st.kind = "assign" ->
            MatchContext(ptags, VariableTags(st), relative_path, VariableName(st),
                         AnnotationText(st), ValueText(st), NoSet)

\* keep_definitions matches the declaration
Kept(st, ptags) == PatternIsMatch(config.keep_definitions, DeclContext(st, ptags))

\* flatten_if matches the if statement
Flattened(st, ptags) ==
    PatternIsMatch(config.flatten_if,
                   MatchContext(ptags, {"IF"}, relative_path, NoName, NoExpr, unparse(st.test), NoSet))

RECURSIVE ExpectedDecls(_, _)
\* the declarations of a body that the policy keeps, in source order, each class
\* with the declarations of its own body and each class and function followed by its
\* spacer; the bodies of try and with statements and of flattened if statements
\* belong to the enclosing scope
ExpectedDecls(body, ptags) ==
    IF body = <<>> THEN <<>>
    ELSE LET st == Head(body)
             here ==
                CASE st.kind = "class" ->
                        IF Kept(st, ptags)
                        THEN <<[tag |-> "CLASS", name |-> <<st.name>>,
                                kids |-> ExpectedDecls(st.body, {"CLASS"})],
                               [tag |-> "SPACER"]>>
                        ELSE <<>>
                  [] st.kind = "func" ->
                        IF Kept(st, ptags)
                        THEN <<[tag |-> "FUNCTION", name |-> <<st.name>>, kids |-> <<>>],
                               [tag |-> "SPACER"]>>
                        ELSE <<>>
                  [] st.kind = "assign" ->
                        IF ~IsMutation(st) /\ Kept(st, ptags)
                        THEN <<[tag |-> "VARIABLE", name |-> VariableName(st), kids |-> <<>>]>>
                        ELSE <<>>
                  [] st.kind \in {"try", "trystar", "with"} -> ExpectedDecls(st.body, ptags)
                  [] st.kind = "if" ->
                        IF Flattened(st, ptags) THEN ExpectedDecls(st.body, ptags) ELSE <<>>
                  [] OTHER -> <<>>
         IN here \o ExpectedDecls(Tail(body), ptags)

RECURSIVE EmittedDecls(_)
\* the class, function, variable and spacer nodes among the children of a node, in
\* order, each class with those of its own children
EmittedDecls(node) ==
    LET kids == SelectSeq(node.children,
                          LAMBDA n : n.tags \cap {"CLASS", "FUNCTION", "VARIABLE", "SPACER"} # {})
    IN [i \in DOMAIN kids |->
          CASE "CLASS" \in kids[i].tags ->
                  [tag |-> "CLASS", name |-> HeaderName(kids[i]), kids |-> EmittedDecls(kids[i])]
            [] "FUNCTION" \in kids[i].tags ->
                  [tag |-> "FUNCTION", name |-> HeaderName(kids[i]), kids |-> <<>>]
            [] "VARIABLE" \in kids[i].tags ->
                  [tag |-> "VARIABLE", name |-> BeforeEquals(kids[i].lines[1].target),
                   kids |-> <<>>]
            [] OTHER -> [tag |-> "SPACER"]]

ValueKept(st, ptags) == PatternIsMatch(config.keep_variable_value, DeclContext(st, ptags))

RECURSIVE ExpectedVariables(_, _)
\* the lines and tags of the variable declarations that the scope of a body and its
\* kept classes emit, in source order: the value text where keep_variable_value
\* matches, `...` in place of any other value, and no value where the source has none
ExpectedVariables(body, ptags) ==
    IF body = <<>> THEN <<>>
    ELSE LET st == Head(body)
             here ==
                CASE st.kind = "class" ->
                        IF Kept(st, ptags) THEN ExpectedVariables(st.body, {"CLASS"}) ELSE <<>>
                  [] st.kind = "assign" ->
                        IF ~IsMutation(st) /\ Kept(st, ptags)
                        THEN <<[name |-> VariableName(st),
                                ann |-> AnnotationText(st),
                                val |-> IF st.value = NoExpr THEN NoExpr
                                        ELSE IF ValueKept(st, ptags) THEN ValueText(st)
                                        ELSE Dots,
                                annotated |-> st.annotation # NoExpr,
                                assigned |-> st.value # NoExpr]>>
                        ELSE <<>>
                  [] st.kind \in {"try", "trystar", "with"} -> ExpectedVariables(st.body, ptags)
                  [] st.kind = "if" ->
                        IF Flattened(st, ptags) THEN ExpectedVariables(st.body, ptags) ELSE <<>>
                  [] OTHER -> <<>>
         IN here \o ExpectedVariables(Tail(body), ptags)

RECURSIVE EmittedVariables(_)
\* the lines and tags of the VARIABLE nodes among the children of a node and of its
\* CLASS children, in order
EmittedVariables(node) ==
    IF node.children = <<>> THEN <<>>
    ELSE LET n == Head(node.children)
             here ==
                CASE "VARIABLE" \in n.tags ->
                        <<[name |-> BeforeEquals(n.lines[1].target),
                           ann |-> n.lines[1].ann,
                           val |-> n.lines[1].val,
                           annotated |-> "ANNOTATED" \in n.tags,
                           assigned |-> "ASSIGNED" \in n.tags]>>
                  [] "CLASS" \in n.tags -> EmittedVariables(n)
                  [] OTHER -> <<>>
         IN here \o EmittedVariables([node EXCEPT !.children = Tail(@)])

\* C10: an emitted variable keeps its value text if keep_variable_value matches and
\* shows `...` otherwise; a declaration without value has no `= ...`; its node has
\* ANNOTATED iff the source has an annotation and ASSIGNED iff it has a value
C10_VariableValue ==
    pc \in {"pass1", "done"} =>
        EmittedVariables(tree) = ExpectedVariables(module.body, {"MODULE"})

\* the first pass emitted a variable with its value and one with its value erased
C10_KeptAndErased ==
    /\ pc = "pass1"
    /\ \E i \in DOMAIN EmittedVariables(tree) :
          EmittedVariables(tree)[i].val \notin {NoExpr, Dots}
    /\ \E i \in DOMAIN EmittedVariables(tree) :
          /\ EmittedVariables(tree)[i].val = Dots
          /\ \E j \in DOMAIN module.body :
                module.body[j].kind = "assign" /\ module.body[j].value \notin {NoExpr, Dots}
                /\ ~ValueKept(module.body[j], {"MODULE"})

-----------------------------------------------------------------------------
(* Rendering and spacers *)

IsSpacer(n) == "SPACER" \in n.tags

RECURSIVE Stripped(_)
\* the node without the spacers that end a child sequence, at every level
Stripped(node) ==
    LET last == Cardinality({i \in DOMAIN node.children :
                                \E j \in i..Len(node.children) : ~IsSpacer(node.children[j])})
    IN [node EXCEPT !.children = [i \in 1..last |-> Stripped(node.children[i])]]

RECURSIVE SumOf(_)
SumOf(ns) == IF ns = <<>> THEN 0 ELSE Head(ns) + SumOf(Tail(ns))

RECURSIVE InnerSpacers(_)
\* the number of spacers at or below node that a sibling other than a spacer follows
InnerSpacers(node) ==
    Cardinality({i \in DOMAIN node.children :
                    /\ IsSpacer(node.children[i])
                    /\ \E j \in (i + 1)..Len(node.children) : ~IsSpacer(node.children[j])})
    + SumOf([i \in DOMAIN node.children |-> InnerSpacers(node.children[i])])

IsBlank(l) == l.line.t = "blank"
BlankLines(txt) == Cardinality({i \in DOMAIN txt : IsBlank(txt[i])})

RECURSIVE NoBlockEndsBlank(_)
\* the rendering of no block at or below node ends in a blank line
NoBlockEndsBlank(node) ==
    /\ IsSpacer(node) \/ collect_lines(node, 0) = <<>>
          \/ ~IsBlank(collect_lines(node, 0)[Len(collect_lines(node, 0))])
    /\ \A i \in DOMAIN node.children : NoBlockEndsBlank(node.children[i])

\* C7: a tree renders as the same tree without its trailing spacers does, at every
\* level; each spacer that a sibling other than a spacer follows renders as a blank
\* line; no rendered block ends in a blank line
C7_TrailingSpacers ==
    pc = "rendered" =>
        /\ text = collect_lines(Stripped(tree), 0)
        /\ BlankLines(text) = InnerSpacers(tree)
        /\ NoBlockEndsBlank(tree)

\* a rendered tree that ends in a spacer, holds a spacer before another node, and
\* holds the class that ends in a spacer after a function that ends in two
C7_Rendered ==
    /\ pc = "rendered"
    /\ tree.children # <<>>
    /\ IsSpacer(tree.children[Len(tree.children)])
    /\ InnerSpacers(tree) > 0
    /\ \E i \in DOMAIN tree.children : tree.children[i] = OuterBlock

-----------------------------------------------------------------------------
(* Signatures *)

\* the signature that the last pass read and the items of the one it emitted
SourceArgs == module.body[1].args
SigItems == tree.children[1].lines[Len(tree.children[1].lines)].args

\* C8: the signature holds the positional-only parameters and `/`, the positional
\* parameters, `*vararg` or a bare `*` (bare exactly when there are keyword-only
\* parameters and no vararg), the keyword-only parameters and `**kwarg`, with the
\* names of the source in their order; a parameter has ` = ...` iff it has a default
\* in the source, and no other default text appears
C8_Signature ==
    pc \in {"pass1", "done"} =>
        LET a == SourceArgs
            items == SigItems
            np == Len(a.posonlyargs)
            na == Len(a.args)
            nk == Len(a.kwonlyargs)
            slash == IF np > 0 THEN 1 ELSE 0
            star == IF a.vararg # NoExpr \/ nk > 0 THEN 1 ELSE 0
            dstar == IF a.kwarg # NoExpr THEN 1 ELSE 0
            \* the position of the i-th positional parameter
            at(i) == IF i <= np THEN i ELSE slash + i
            undefaulted == np + na - Len(a.defaults)
        IN /\ Len(items) = np + slash + na + star + nk + dstar
           /\ \A i \in 1..np : items[i].pre = "" /\ items[i].name = a.posonlyargs[i].arg
           /\ np > 0 => items[np + 1] = Item("/", "", NoExpr, NoExpr)
           /\ \A i \in 1..na : /\ items[np + slash + i].pre = ""
                                /\ items[np + slash + i].name = a.args[i].arg
           /\ \A i \in 1..(np + na) :
                  items[at(i)].dflt = IF i > undefaulted THEN Dots ELSE NoExpr
           /\ a.vararg # NoExpr =>
                  /\ items[np + slash + na + 1].pre = "*"
                  /\ items[np + slash + na + 1].name = a.vararg.arg
                  /\ items[np + slash + na + 1].dflt = NoExpr
           /\ (a.vararg = NoExpr /\ nk > 0) =>
                  items[np + slash + na + 1] = Item("*", "", NoExpr, NoExpr)
           /\ \A i \in 1..nk :
                  LET item == items[np + slash + na + star + i]
                  IN /\ item.pre = ""
                     /\ item.name = a.kwonlyargs[i].arg
                     /\ item.dflt = IF a.kw_defaults[i] # NoExpr THEN Dots ELSE NoExpr
           /\ a.kwarg # NoExpr =>
                  /\ items[Len(items)].pre = "**"
                  /\ items[Len(items)].name = a.kwarg.arg
                  /\ items[Len(items)].dflt = NoExpr

\* the first pass rendered a signature with a positional-only parameter, two
\* positional parameters of which the last has a default, keyword-only parameters
\* after a bare `*` of which one has a default, and `**kwarg`
C8_FullSignature ==
    /\ pc = "pass1"
    /\ Len(SourceArgs.posonlyargs) = 1
    /\ Len(SourceArgs.args) = 2
    /\ Len(SourceArgs.defaults) = 1
    /\ SourceArgs.defaults[1] = Num
    /\ SourceArgs.vararg = NoExpr
    /\ Len(SourceArgs.kwonlyargs) = 2
    /\ SourceArgs.kw_defaults = <<NoExpr, Num>>
    /\ SourceArgs.kwarg # NoExpr
    /\ Len(SigItems) = 8

-----------------------------------------------------------------------------
(* Return annotations *)

RECURSIVE SourceFuncs(_)
\* the function definitions of a body and of the class, if, try and with
\* statements in it, in source order (the body of a function is not searched)
SourceFuncs(body) ==
    IF body = <<>> THEN <<>>
    ELSE LET st == Head(body)
             here == CASE st.kind = "func" -> <<st>>
                       [] st.kind = "if" -> SourceFuncs(st.body) \o SourceFuncs(st.orelse)
                       [] "body" \in DOMAIN st -> SourceFuncs(st.body)
                       [] OTHER -> <<>>
         IN here \o SourceFuncs(Tail(body))

RECURSIVE EmittedFuncs(_)
\* the FUNCTION nodes at or below a node, in order, each as its signature line
\* with the tags of its direct parent
EmittedFuncs(node) ==
    IF node.children = <<>> THEN <<>>
    ELSE LET n == Head(node.children)
             here == IF "FUNCTION" \in n.tags
                     THEN <<[sig |-> n.lines[Len(n.lines)], ptags |-> node.tags]>>
                     ELSE EmittedFuncs(n)
         IN here \o EmittedFuncs([node EXCEPT !.children = Tail(@)])

\* add_implicit_none_return matches a function of this name under this parent
NoneReturn(name, ptags) ==
    PatternIsMatch(config.add_implicit_none_return,
                   MatchContext(ptags, {"FUNCTION"}, relative_path, <<name>>, NoExpr, NoExpr, NoSet))

\* C11: every emitted function, sync or async, keeps the return annotation of its
\* source; without one it shows `-> None` exactly when add_implicit_none_return
\* matches its parent tags, the FUNCTION tag and its name, and no arrow otherwise
C11_ReturnAnnotation ==
    pc \in {"pass1", "done"} =>
        LET emitted == EmittedFuncs(tree)
            source == SourceFuncs(module.body)
        IN /\ Len(emitted) = Len(source)
           /\ \A i \in DOMAIN emitted :
                 /\ emitted[i].sig.name = source[i].name
                 /\ emitted[i].sig.is_async = source[i].is_async
                 /\ emitted[i].sig.returns =
                       IF source[i].returns # NoExpr THEN unparse_type_expr(source[i].returns)
                       ELSE IF NoneReturn(source[i].name, emitted[i].ptags) THEN Name("None")
                       ELSE NoExpr

\* under the policy for __init__ in a class, the first pass emitted an __init__ with
\* `-> None` in a class, a function without arrow, and an __init__ without arrow
\* whose parent is not a class
C11_InitOnly ==
    /\ pc = "pass1"
    /\ config.add_implicit_none_return = PAnd(parent_node_is({"CLASS"}), name_is({<<"__init__">>}))
    /\ \E i \in DOMAIN EmittedFuncs(tree) :
          LET e == EmittedFuncs(tree)[i]
          IN e.sig.name = "__init__" /\ e.ptags = {"CLASS"} /\ e.sig.returns = Name("None")
    /\ \E i \in DOMAIN EmittedFuncs(tree) :
          LET e == EmittedFuncs(tree)[i]
          IN e.sig.name = "__init__" /\ e.ptags # {"CLASS"} /\ e.sig.returns = NoExpr
    /\ \E i \in DOMAIN EmittedFuncs(tree) :
          LET e == EmittedFuncs(tree)[i]
          IN e.sig.name # "__init__" /\ e.ptags = {"CLASS"} /\ e.sig.returns = NoExpr

-----------------------------------------------------------------------------
(* Docstrings *)

\* a bare expression statement whose value is a string literal
IsStringStmt(st) == st.kind = "expr" /\ st.value.k = "str"

\* keep_trailing_docstrings matches in a parent with the tags ptags whose last
\* emitted child has the tags ltags
TrailingKept(ptags, ltags) ==
    PatternIsMatch(config.keep_trailing_docstrings,
                   MatchContext(ptags, ltags, relative_path, NoName, NoExpr, NoExpr, NoSet))

\* a child of a scope, as far as docstrings are concerned
ScopeChild(tags, raw, kids) == [tags |-> tags, raw |-> raw, kids |-> kids]

RECURSIVE ExpectedScope(_, _, _, _)
\* the children that the statements body[i], body[i + 1], ... of a scope whose node has
\* the tags ptags add to the children acc emitted so far: a string statement is kept
\* when it is the first statement of the scope or the policy matches the tags of the
\* last child emitted before it; a function shows the docstring that starts its body
ExpectedScope(body, i, ptags, acc) ==
    IF i > Len(body) THEN acc
    ELSE LET st == body[i]
             ltags == IF acc = <<>> THEN {} ELSE acc[Len(acc)].tags
             here ==
                CASE IsStringStmt(st) ->
                        IF i = 1 \/ TrailingKept(ptags, ltags)
                        THEN <<ScopeChild({"DOCSTRING"}, st.value, <<>>)>>
                        ELSE <<>>
                  [] st.kind = "class" ->
                        IF Kept(st, ptags)
                        THEN <<ScopeChild({"CLASS"}, NoExpr,
                                          ExpectedScope(st.body, 1, {"CLASS"}, <<>>)),
                               ScopeChild({"SPACER"}, NoExpr, <<>>)>>
                        ELSE <<>>
                  [] st.kind = "func" ->
                        IF Kept(st, ptags)
                        THEN <<ScopeChild({"FUNCTION"}, NoExpr,
                                          IF IsStringStmt(st.body[1])
                                          THEN <<ScopeChild({"DOCSTRING"}, st.body[1].value, <<>>)>>
                                          ELSE <<>>),
                               ScopeChild({"SPACER"}, NoExpr, <<>>)>>
                        ELSE <<>>
                  [] st.kind = "assign" ->
                        IF ~IsMutation(st) /\ Kept(st, ptags)
                        THEN <<ScopeChild(VariableTags(st), NoExpr, <<>>)>>
                        ELSE <<>>
                  [] st.kind = "import" -> <<ScopeChild({"IMPORT"}, NoExpr, <<>>)>>
                  [] OTHER -> <<>>
         IN ExpectedScope(body, i + 1, ptags, acc \o here)

RECURSIVE EmittedScope(_)
\* the children of a node other than its ellipsis, with the text of each docstring
EmittedScope(node) ==
    LET kids == SelectSeq(node.children, LAMBDA n : "ELLIPSIS" \notin n.tags)
    IN [i \in DOMAIN kids |->
          ScopeChild(kids[i].tags,
                     IF "DOCSTRING" \in kids[i].tags THEN kids[i].lines[1].raw ELSE NoExpr,
                     EmittedScope(kids[i]))]

\* C12: a string statement that is the first statement of its scope is kept
\* verbatim; one that another statement precedes is kept exactly when
\* keep_trailing_docstrings matches the tags of the sibling emitted just before it;
\* every other bare expression statement emits nothing
C12_Docstrings ==
    pc \in {"pass1", "done"} => EmittedScope(tree) = ExpectedScope(module.body, 1, {"MODULE"}, <<>>)

\* the first pass kept a string that follows a statement which emitted nothing,
\* under a policy that matches no sibling
C12_KeptAfterNothing ==
    /\ pc = "pass1"
    /\ config.keep_trailing_docstrings = PFalse
    /\ Len(module.body) = 2
    /\ module.body[1].kind = "pass"
    /\ IsStringStmt(module.body[2])
    /\ Len(tree.children) = 1
    /\ "DOCSTRING" \in tree.children[1].tags

-----------------------------------------------------------------------------
(* If statements *)

\* the Stubber of the last pass
Self == [config |-> config, file_path |-> relative_path, used_names |-> used_names]

\* keep_if_statements matches an if statement whose parent has the tags ptags
IfKept(ptags) ==
    PatternIsMatch(config.keep_if_statements,
                   MatchContext(ptags, {"IF"}, relative_path, NoName, NoExpr, NoExpr, NoSet))

\* the node of a branch with the given header line, without children
Branch(word, test) == Node(<<IF word = "else" THEN ElseLine ELSE IfLine(word, test)>>, {"IF"})

RECURSIVE IfRuleAll(_, _)
RECURSIVE IfRule(_, _)
RECURSIVE IfRuleElse(_, _)

\* the node P after the statements of body, each added by IfRule
IfRuleAll(P, body) ==
    IF body = <<>> THEN P ELSE IfRuleAll(IfRule(P, Head(body)), Tail(body))

\* the node P after the elif and else branches of an if statement, each a node of
\* its own with its body in place
IfRuleElse(P, orelse) ==
    IF orelse = <<>> THEN P
    ELSE IF Len(orelse) = 1 /\ orelse[1].kind = "if"
    THEN IfRuleElse(AddChild(P, check_body_ellipsis(Self, P,
                                   IfRuleAll(Branch("elif", unparse(orelse[1].test)), orelse[1].body),
                                   NoName)),
                    orelse[1].orelse)
    ELSE AddChild(P, check_body_ellipsis(Self, P, IfRuleAll(Branch("else", NoExpr), orelse), NoName))

\* the node P after a statement: an if statement that flatten_if matches puts its
\* body into P, followed by a skeleton that holds only an ellipsis when
\* keep_if_statements matches; one that flatten_if does not match is a node with
\* its body in place when keep_if_statements matches, and nothing otherwise; the
\* body of a class follows the same rule; any other statement is stubbed
IfRule(P, st) ==
    CASE st.kind = "if" ->
            LET skeleton == AddChild(Branch("if", unparse(st.test)), Node(<<EllipsisLine>>, {"ELLIPSIS"}))
                in_place == check_body_ellipsis(Self, P,
                                IfRuleAll(Branch("if", unparse(st.test)), st.body), NoName)
            IN IF Flattened(st, P.tags)
               THEN IF IfKept(P.tags)
                    THEN IfRuleElse(AddChild(IfRuleAll(P, st.body), skeleton), st.orelse)
                    ELSE IfRuleAll(P, st.body)
               ELSE IF IfKept(P.tags)
                    THEN IfRuleElse(AddChild(P, in_place), st.orelse)
                    ELSE P
      [] st.kind = "class" /\ Kept(st, P.tags) ->
            LET header == Node(<<ClassLine(st.name, <<>>)>>, {"CLASS"})
            IN AddChild(AddChild(P, check_body_ellipsis(Self, P, IfRuleAll(header, st.body),
                                                        <<st.name>>)),
                        Spacer)
      [] OTHER -> stub(Walk(P, FALSE, {}), st, Self).p

\* C13: an if statement whose test flatten_if matches has its body stubbed into the
\* parent and no wrapper, unless keep_if_statements matches: then the flattened body
\* is followed by an if skeleton whose first branch holds only an ellipsis; without
\* a flatten_if match the statement is emitted with its body in place if
\* keep_if_statements matches, and nothing is emitted if it does not
C13_IfStatements ==
    pc \in {"pass1", "done"} => tree = IfRuleAll(Node(<<>>, {"MODULE"}), module.body)

\* the first pass flattened a guard and kept its skeleton, and emitted another if
\* statement with its body in place
C13_FlattenedAndInPlace ==
    /\ pc = "pass1"
    /\ config.flatten_if = value_is({Name("T")})
    /\ Len(module.body) = 2
    /\ module.body[1].kind = "if" /\ Flattened(module.body[1], {"MODULE"})
    /\ module.body[2].kind = "if" /\ ~Flattened(module.body[2], {"MODULE"})
    /\ IfKept({"MODULE"})
    /\ Len(tree.children) = 5
    /\ "IMPORT" \in tree.children[1].tags
    /\ tree.children[2].lines = <<IfLine("if", Name("T"))>>
    /\ tree.children[2].children = <<Node(<<EllipsisLine>>, {"ELLIPSIS"})>>
    /\ tree.children[3].lines = <<IfLine("if", Name("foo"))>>
    /\ "IMPORT" \in tree.children[3].children[1].tags

-----------------------------------------------------------------------------
(* Tag queries *)

\* the regular expression of a query written as fn('regex')
RegexOf(src) == src.args[1].s
IsQuery(src, fn) == src \in TagSources \cup FieldSources /\ src.func.id = fn

\* C14: node_is(re) and parent_node_is(re) are true if and only if the regular
\* expression matches the name of at least one tag of the candidate's
\* (respectively the parent's) set of tags, whatever other tags the set holds,
\* and false on the empty set; node_is('class|if') is true for {IF}, {CLASS},
\* {IF, CLASS} and {IF, CLASS, MODULE}.
C14_TagQueries ==
    pc = "evaluated" =>
        /\ IsQuery(pattern_src, "node_is") =>
              /\ verdict = (\E t \in match_ctx.tags : regex_match(RegexOf(pattern_src), TagName[t]))
              /\ match_ctx.tags = {} => ~verdict
        /\ IsQuery(pattern_src, "parent_node_is") =>
              /\ verdict = (\E t \in match_ctx.parent_tags :
                                regex_match(RegexOf(pattern_src), TagName[t]))
              /\ match_ctx.parent_tags = {} => ~verdict
        /\ (pattern_src = Q("node_is", re_class_or_if)
             /\ match_ctx.tags \in {{"IF"}, {"CLASS"}, {"IF", "CLASS"}, {"IF", "CLASS", "MODULE"}})
            => verdict
        /\ (pattern_src = Q("node_is", re_class) /\ match_ctx.tags \in {{"IF"}, {"IF", "MODULE"}})
            => ~verdict

\* node_is('class') was evaluated on a node tagged IF, CLASS and MODULE
C14_OneTagOfSeveral ==
    /\ pc = "evaluated"
    /\ pattern_src = Q("node_is", re_class)
    /\ match_ctx.tags = {"IF", "CLASS", "MODULE"}
    /\ verdict

-----------------------------------------------------------------------------
(* Field queries *)

FieldQueries == {"name_is", "file_path_is", "annotation_is", "value_is"}
\* the field of the context that the query fn reads: whether it is present, and its text
FieldPresent(fn, c) ==
    CASE fn = "name_is" -> c.name # NoName
      [] fn = "file_path_is" -> TRUE
      [] fn = "annotation_is" -> c.annotation # NoExpr
      [] fn = "value_is" -> c.value # NoExpr
FieldText(fn, c) ==
    CASE fn = "name_is" -> c.name
      [] fn = "file_path_is" -> c.file_path
      [] fn = "annotation_is" -> c.annotation.s
      [] fn = "value_is" -> c.value.s

\* C15 as stated: name_is(re), file_path_is(re), annotation_is(re) and
\* value_is(re) are true if and only if the field is present and the regular
\* expression matches somewhere in it (unanchored search).
C15_UnanchoredSearch ==
    pc = "evaluated" =>
        \A fn \in FieldQueries :
            IsQuery(pattern_src, fn) =>
                verdict = (/\ FieldPresent(fn, match_ctx)
                           /\ regex_search(RegexOf(pattern_src), FieldText(fn, match_ctx)))

\* C15, amended: name_is(re), file_path_is(re), annotation_is(re) and
\* value_is(re) are false when the field is absent, true when the field is
\* present and the regular expression matches it as a whole, and false when the
\* regular expression matches no part of the field that begins at its first
\* character: a match that begins later in the field does not count.
C15_FieldQueries ==
    pc = "evaluated" =>
        /\ \A fn \in FieldQueries :
              IsQuery(pattern_src, fn) =>
                  /\ ~FieldPresent(fn, match_ctx) => ~verdict
                  /\ (/\ FieldPresent(fn, match_ctx)
                      /\ \E alt \in RegexOf(pattern_src) :
                            MatchesWhole(alt, FieldText(fn, match_ctx)))
                     => verdict
                  /\ (/\ FieldPresent(fn, match_ctx)
                      /\ ~regex_prefix(RegexOf(pattern_src), FieldText(fn, match_ctx)))
                     => ~verdict
        /\ (pattern_src = Q("name_is", OneChar("u")) /\ match_ctx.name = t_qux) => ~verdict
        /\ (pattern_src = Q("name_is", re_private) /\ match_ctx.name = t___foo) => ~verdict
        /\ (pattern_src = Q("file_path_is", re_slash_foo_any) /\ match_ctx.file_path = t__bar_foo)
            => ~verdict

\* name_is('u') was evaluated on the name qux, in which `u` is found but not at
\* the start, and was false
C15_FoundLaterInTheName ==
    /\ pc = "evaluated"
    /\ pattern_src = Q("name_is", OneChar("u"))
    /\ match_ctx.name = t_qux
    /\ regex_search(OneChar("u"), t_qux)
    /\ ~verdict

-----------------------------------------------------------------------------
(* The grammar of patterns *)

RECURSIVE WellFormed(_)
\* the patterns of the grammar: a bool, True or False, a query function called
\* with one string literal and no keyword, and their combinations
WellFormed(src) ==
    CASE src.k \in {"pybool", "bool"} -> TRUE
      [] src.k = "call" -> /\ src.func.k = "name"
                           /\ src.func.id \in QueryFunctions
                           /\ src.keywords = <<>>
                           /\ Len(src.args) = 1
                           /\ src.args[1].k = "str"
      [] src.k = "not" -> WellFormed(src.operand)
      [] src.k \in {"and", "or"} -> WellFormed(src.l) /\ WellFormed(src.r)
      [] OTHER -> FALSE

RECURSIVE ViolatedRules(_)
\* the rules of the grammar that some part of the pattern violates
ViolatedRules(src) ==
    CASE src.k = "num" -> {"unsupported constant type: int"}
      [] src.k = "str" -> {"unsupported constant type: str"}
      [] src.k = "call" ->
            IF src.func.k # "name" THEN {"unsupported function syntax"}
            ELSE (IF src.func.id \in QueryFunctions THEN {} ELSE {"unsupported function name"})
                 \cup (IF src.keywords # <<>> \/ Len(src.args) # 1
                       THEN {"unsupported function signature"} ELSE {})
                 \cup (IF \E n \in DOMAIN src.args : src.args[n].k # "str"
                       THEN {"unsupported function argument"} ELSE {})
      [] src.k = "not" -> ViolatedRules(src.operand)
      [] src.k \in {"and", "or"} -> ViolatedRules(src.l) \cup ViolatedRules(src.r)
      [] OTHER -> {}

\* C16: parse_pattern accepts exactly the boolean literals, the calls of the
\* seven query functions with one string literal, and their and/or/not
\* combinations; any other pattern raises a ValueError that names a rule the
\* pattern violates, and no matcher is produced or evaluated for it.
C16_Grammar ==
    pc # "pattern" =>
        /\ parsed.ok = WellFormed(pattern_src)
        /\ (pc = "ValueError") = ~WellFormed(pattern_src)
        /\ ~parsed.ok => parsed.error \in ViolatedRules(pattern_src)
        /\ parsed.ok => parsed.error = "" /\ ViolatedRules(pattern_src) = {}
        /\ pc = "evaluated" => parsed.ok
        /\ pattern_src = Num => parsed.error = "unsupported constant type: int"
        /\ (pattern_src.k = "call" /\ pattern_src.keywords # <<>>)
            => parsed.error = "unsupported function signature"

\* node_is('', x=y) was given to parse_pattern, which raised
C16_KeywordRejected ==
    /\ pc = "ValueError"
    /\ pattern_src.k = "call"
    /\ pattern_src.func = Name("node_is")
    /\ pattern_src.keywords # <<>>
    /\ pattern_src.args = <<Str(re_empty)>>
    /\ parsed.error = "unsupported function signature"

-----------------------------------------------------------------------------
(* Files do not share state *)

\* stubgen_single_file_src(inp, path, cfg) on its own: the result of the second
\* pass, or of the first if that raised
Alone(m, path, cfg) ==
    LET first == stub_content(m, path, cfg, FALSE)
    IN IF first.err THEN first
       ELSE stub_content(parse_module(first.text), path, cfg, discover_imports(path, cfg))

FileIsolated(f) ==
    LET file == files[f]
        alone == Alone(file.inp, file.path, config)
    IN /\ file.pc \in {"new1", "new2"} => file.stubber[1].used_names = NoSet
       /\ file.pc = "found" => file.stubber[1].used_names = discover_module_names(file.source)
       /\ file.pc = "done" => ~alone.err /\ file.out = alone.text
       /\ file.pc = "raised" => alone.err /\ file.out = <<>>
       /\ file.stubber # <<>> => file.stubber[1].config = config

\* C17: whatever the interleaving of the calls, every new Stubber starts without
\* a set of used names, the set a pass discovers holds the names of its own
\* module only, each file ends with the output (or the failure) of stubbing it
\* alone, whether or not another file has failed, and the shared config never
\* changes.
C17_FilesIsolated ==
    /\ [](pc = "files" => \A f \in DOMAIN files : FileIsolated(f))
    /\ [][config' = config]_vars

\* one file has failed, another has ended with a stub after it, and a third is
\* between the discovery of its names and its output
C17_Interleaved ==
    /\ pc = "files"
    /\ \E f, g, h \in DOMAIN files :
          /\ files[f].pc = "raised"
          /\ files[g].pc = "done"
          /\ files[g].out # <<>>
          /\ files[h].pc = "found"
          /\ files[h].stubber[1].used_names # files[g].stubber[1].used_names

-----------------------------------------------------------------------------
(* Name discovery *)

RECURSIVE Unquote(_)
\* a type expression with the quotes of its string literals taken off
Unquote(e) ==
    CASE e.k = "str" -> Unquote(e.s)
      [] e.k = "sub" -> [e EXCEPT !.args = [i \in DOMAIN e.args |-> Unquote(e.args[i])]]
      [] e.k \in {"list", "tuple"} -> [e EXCEPT !.elts = [i \in DOMAIN e.elts |-> Unquote(e.elts[i])]]
      [] e.k = "bitor" -> [e EXCEPT !.left = Unquote(e.left), !.right = Unquote(e.right)]
      [] OTHER -> e

\* the string elements of an `__all__` list or tuple assignment
AllStrings(st) ==
    IF st.kind = "assign" /\ st.targets = <<Name("__all__")>> /\ st.value.k \in {"list", "tuple"}
    THEN {st.value.elts[i].s.id : i \in {j \in DOMAIN st.value.elts : st.value.elts[j].k = "str"}}
    ELSE {}

\* the identifiers of the unquoted value of a `NAME: TypeAlias = VALUE` assignment
AliasValueNames(st) ==
    IF st.kind = "assign" /\ st.annotation = Name("TypeAlias") /\ st.value # NoExpr
    THEN ExprNames(Unquote(st.value))
    ELSE {}

\* the set that C18 describes, for the body of a module
ClaimedNames(body) ==
    UNION {StmtNames(body[i]) \cup AllStrings(body[i]) \cup AliasValueNames(body[i]) :
              i \in {j \in DOMAIN body : body[j].kind # "import"}}

\* the set that test_discover_names expects for DISCOVER_NAMES
DiscoveredInTest ==
    {"f", "g", "h", "i", "j", "k", "l", "m", "o", "q", "r", "Bar", "Baz", "Callable",
     "TypeAlias", "Foo", "__all__", "some", "some2", "some3"}

\* identifiers that the statements of NameStmts and DISCOVER_NAMES hold only as
\* imported names, attribute members, definition names and parameter names
NeverReferred == {"a", "c", "s", "other", "d", "n", "p", "e"}

\* C18: discover_module_names leaves used_names equal to the identifiers of the
\* Name nodes of the non-import top-level statements, the string elements of
\* `__all__` assignments and the identifiers of unquoted TypeAlias values, and
\* to nothing else: no imported name, attribute member, definition or parameter
C18_ExactNames ==
    (pc = "done" /\ discovered) =>
        /\ used_names = Some(ClaimedNames(module.body))
        /\ used_names[1] \cap NeverReferred = {}
        /\ (inp = DiscoverNames /\ config.keep_variable_value = PTrue)
            => used_names = Some(DiscoveredInTest)

\* the second pass has discovered the names of a text of imports only: no set of
\* names exists, and the imports are all in the result
C18_NoSetForImportsOnly ==
    /\ pc = "done"
    /\ discovered
    /\ module.body # <<>>
    /\ \A i \in DOMAIN module.body : module.body[i].kind = "import"
    /\ used_names = NoSet
    /\ Len(text) = Len(module.body)

-----------------------------------------------------------------------------
(* The name that an import member binds *)

\* the name that the member of import_src binds in the importing scope, as C19
\* states it
BoundByMember ==
    LET member == import_src.stmt.names[1]
    IN IF member.asname # NoName THEN member.asname[1]
       ELSE IF member.name = <<"*">> THEN "*"
       ELSE IF import_src.stmt.isfrom THEN member.name[Len(member.name)]
       ELSE Head(member.name)

\* C19: get_imported_name returns the alias of a member with an `as` clause, `*`
\* for a wildcard, the imported name for `from ... import X` at any relative
\* level, and the first component of the dotted name for `import a.b.c`; the
\* member is kept by the pruning when that name is `*` or in the usage set (or
\* the member re-exports itself).
C19_BoundName ==
    pc = "imported" =>
        /\ imported[1].name = BoundByMember
        /\ imported[1].keep = (\/ BoundByMember = "*"
                               \/ BoundByMember \in import_src.used
                               \/ IsSelfReexport(import_src.stmt.names[1]))
        /\ import_src.stmt = Import(<<Alias(<<"a", "b", "X">>, NoName)>>) => imported[1].name = "a"
        /\ import_src.stmt = Import(<<Alias(<<"a", "b", "X">>, <<"X">>)>>) => imported[1].name = "X"

\* `import a.b.X` was looked at while X is used and a is not: the member binds
\* a and is not kept
C19_DottedImport ==
    /\ pc = "imported"
    /\ import_src.stmt = Import(<<Alias(<<"a", "b", "X">>, NoName)>>)
    /\ import_src.used = {"X"}
    /\ imported = <<[name |-> "a", keep |-> FALSE]>>

-----------------------------------------------------------------------------
(* Determinism *)

Ended(f) == files[f].pc \in {"done", "raised"}

\* C20: two runs of stubgen_single_file_src on the same text and path with the
\* same config end alike, with the same output, whatever other runs came before
\* them, between them or in the middle of them; their first passes return the
\* same text too.
C20_Deterministic ==
    pc = "files" =>
        \A f, g \in DOMAIN files :
            (files[f].inp = files[g].inp /\ files[f].path = files[g].path) =>
                /\ (Ended(f) /\ Ended(g)) =>
                      files[f].pc = files[g].pc /\ files[f].out = files[g].out
                /\ (files[f].text # <<>> /\ files[g].text # <<>>) => files[f].text = files[g].text

\* two runs on the same text have ended with the same stub, and a run on another
\* text, in the same process, has ended with a different one
C20_SameTextTwice ==
    /\ pc = "files"
    /\ \E f, g, h \in DOMAIN files :
          /\ f # g
          /\ files[f].inp = files[g].inp
          /\ files[h].inp # files[f].inp
          /\ files[f].pc = "done"
          /\ files[g].pc = "done"
          /\ files[f].out = files[g].out
          /\ files[f].out # <<>>
          /\ files[h].pc = "done"
          /\ files[h].out # files[f].out

-----------------------------------------------------------------------------
(* Assignments that are mutations *)

\* the target of the assignment, or one target of its chain, is an attribute
Mutation(obj) == \E i \in DOMAIN obj.targets : obj.targets[i].k = "attr"

\* the keep_definitions policy matches the top-level assignment obj
DeclarationKept(obj) ==
    PatternIsMatch(get_pattern(config.keep_definitions),
                   MatchContext({"MODULE"},
                                {"VARIABLE"}
                                \cup (IF obj.annotation # NoExpr THEN {"ANNOTATED"} ELSE {})
                                \cup (IF obj.value # NoExpr THEN {"ASSIGNED"} ELSE {}),
                                relative_path,
                                BeforeEquals(unparse_assign_target(obj.targets, obj.simple, ~obj.ann)),
                                obj.annotation, obj.value, NoSet))

\* the first pass over the text given by the caller has ended
FirstPassDone == pc = "pass1" /\ round = 0

\* C21: an assignment is dropped, with no policy consulted and nothing logged,
\* exactly when its target is an attribute; every assignment with a target of
\* another shape (name, chain, tuple, list, subscript) is a declaration: the
\* first pass emits one VARIABLE node for each that keep_definitions matches, in
\* source order, and no other node.
C21_OnlyAttributesDropped ==
    FirstPassDone =>
        LET declared == SelectSeq(inp.body, LAMBDA s : ~Mutation(s))
            kept == SelectSeq(declared, DeclarationKept)
        IN /\ Len(tree.children) = Len(kept)
           /\ \A i \in DOMAIN kept :
                 /\ "VARIABLE" \in tree.children[i].tags
                 /\ tree.children[i].lines[1].target
                      = unparse_assign_target(kept[i].targets, kept[i].simple, ~kept[i].ann)
           /\ declared = <<>> => log = {}

\* `o.a = 1` was dropped and `d[k] = 1` emitted, the one without a log entry, the
\* other as a VARIABLE node
C21_AttributeDroppedSubscriptKept ==
    /\ FirstPassDone
    /\ inp.body = <<Assign(<<Attr(Name("o"), "a")>>, Num), Assign(<<Sub("d", <<Name("k")>>)>>, Num)>>
    /\ config.keep_definitions = PTrue
    /\ config.keep_variable_value = PTrue
    /\ Len(tree.children) = 1
    /\ tree.children[1].tags = {"VARIABLE", "ASSIGNED"}
    /\ tree.children[1].lines[1].target = <<"d", "[", "k", "]">>
    /\ log = {}

-----------------------------------------------------------------------------
(* Try and with statements *)

\* the statements that the claim has stubbed in place of their wrapper
Wrappers == {"try", "trystar", "with", "asyncwith"}

RECURSIVE Unwrapped(_)
\* the body with each try and with statement, at any depth of wrappers and class
\* bodies, replaced by the statements of its main body
Unwrapped(body) ==
    IF body = <<>> THEN <<>>
    ELSE LET s == Head(body)
         IN (CASE s.kind \in Wrappers -> Unwrapped(s.body)
               [] s.kind = "class" -> <<[s EXCEPT !.body = Unwrapped(s.body)]>>
               [] OTHER -> <<s>>)
            \o Unwrapped(Tail(body))

\* C22: the statements of the main body of a try, try-with-groups, with or async
\* with statement are stubbed into the parent scope in source order, and nothing
\* of the wrapper, the handlers, the else or the finally block is in the output:
\* the first pass builds the tree that it builds for the text without wrappers.
C22_BodiesInParentScope ==
    FirstPassDone =>
        tree = stub_content(Module(Unwrapped(inp.body)), relative_path, config, FALSE).tree

\* a try statement with except, else and finally blocks was stubbed after `y = 1`:
\* the two statements of its main body follow y, and nothing else
C22_TryBodyAfterSibling ==
    /\ FirstPassDone
    /\ Len(inp.body) = 2
    /\ inp.body[1] = Assign(<<Name("y")>>, Num)
    /\ inp.body[2].kind = "try"
    /\ inp.body[2].finalbody # <<>>
    /\ Len(tree.children) = 3
    /\ tree.children[1].lines[1].target = <<"y">>
    /\ tree.children[2].lines[1].target = <<"x">>
    /\ "IMPORT" \in tree.children[3].tags

-----------------------------------------------------------------------------
(* Statements without output *)

\* the kinds that the claim calls intentionally ignored
ClaimedIgnored == {"pass", "for", "while", "asyncfor", "assert", "delete", "raise",
                   "augassign", "match"}
\* a bare expression that is no string literal
BareExpr(s) == s.kind = "expr" /\ ~as_string_constant(s.value)
\* the kinds that have a case of their own in Stubber.stub
Handled == {"module", "import", "assign", "class", "func", "expr", "if", "try", "trystar",
            "with", "typealias"}

\* C23: a statement of an intentionally-ignored kind (pass, for, while, async
\* for, a bare call, assert, del, raise, augmented assignment, match) adds no node
\* and is reported through ignore_intentional, never through ignore_unhandled;
\* ignore_unhandled is reached by the other unhandled kinds only.
C23_IgnoredIntentionally ==
    FirstPassDone =>
        /\ \A i \in DOMAIN inp.body :
              LET s == inp.body[i]
              IN /\ s.kind \in ClaimedIgnored =>
                       /\ [sev |-> "intentional", msg |-> s.kind] \in log
                       /\ [sev |-> "unhandled", msg |-> s.kind] \notin log
                 /\ BareExpr(s) => [sev |-> "intentional", msg |-> "expr"] \in log
        /\ \A e \in log : e.sev = "unhandled" => e.msg \notin Handled \cup ClaimedIgnored
        /\ tree = stub_content(Module(SelectSeq(inp.body,
                                                LAMBDA s : s.kind \notin ClaimedIgnored /\ ~BareExpr(s))),
                               relative_path, config, FALSE).tree

\* a for loop and a return statement were stubbed: no node, the loop logged as
\* intentionally ignored and the return as unhandled
C23_LoopAndReturn ==
    /\ FirstPassDone
    /\ inp.body = <<Block("for", <<Assign(<<Name("x")>>, Num)>>), Simple("return")>>
    /\ tree.children = <<>>
    /\ log = {[sev |-> "intentional", msg |-> "for"], [sev |-> "unhandled", msg |-> "return"]}

-----------------------------------------------------------------------------
(* The branches of an if statement *)

RECURSIVE ElseBranches(_)
\* the elif branches of a chain and its final else, in source order
ElseBranches(orelse) ==
    IF orelse = <<>> THEN <<>>
    ELSE IF Len(orelse) = 1 /\ orelse[1].kind = "if"
    THEN <<[line |-> IfLine("elif", unparse(orelse[1].test)), first |-> FALSE,
            body |-> orelse[1].body]>>
         \o ElseBranches(orelse[1].orelse)
    ELSE <<[line |-> ElseLine, first |-> FALSE, body |-> orelse]>>

RECURSIVE ScopeBranches(_, _)
\* the branches of the if statements that belong to a scope with the tags ptags:
\* those of its body and, before the branches of a statement that flatten_if
\* matches, those of the body of that statement; none without keep_if_statements
ScopeBranches(body, ptags) ==
    IF body = <<>> THEN <<>>
    ELSE LET st == Head(body)
         IN (IF st.kind # "if" THEN <<>>
             ELSE (IF Flattened(st, ptags) THEN ScopeBranches(st.body, ptags) ELSE <<>>)
                  \o (IF IfKept(ptags)
                      THEN <<[line |-> IfLine("if", unparse(st.test)), first |-> TRUE,
                              body |-> st.body]>>
                           \o ElseBranches(st.orelse)
                      ELSE <<>>))
            \o ScopeBranches(Tail(body), ptags)

\* the node of an elif or else branch with its body stubbed in place
InPlace(b) ==
    check_body_ellipsis(Self, Node(<<>>, {"MODULE"}),
                        StubAll(Walk(Node(<<b.line>>, {"IF"}), FALSE, {}), b.body, Self).p,
                        NoName)

RECURSIVE Spliced(_, _)
\* the body without its if statements, those that flatten_if matches replaced by
\* the statements of their first body
Spliced(body, ptags) ==
    IF body = <<>> THEN <<>>
    ELSE LET st == Head(body)
         IN (CASE st.kind = "if" ->
                     IF Flattened(st, ptags) THEN Spliced(st.body, ptags) ELSE <<>>
               [] st.kind = "class" -> <<[st EXCEPT !.body = Spliced(st.body, {"CLASS"})]>>
               [] OTHER -> <<st>>)
            \o Spliced(Tail(body), ptags)

\* C24: an emitted if statement gives its parent one `if` node, one `elif` node
\* for each chained elif and one `else` node exactly when there is a final else,
\* as consecutive siblings in source order, each tagged IF and nothing else; the
\* body of an elif or else branch is stubbed in place whatever flatten_if says;
\* when keep_if_statements does not match, no branch node is emitted and nothing
\* of the elif and else branches is in the output.
C24_Branches ==
    pc \in {"pass1", "done"} =>
        LET nodes == SelectSeq(tree.children, LAMBDA n : "IF" \in n.tags)
            branches == ScopeBranches(module.body, {"MODULE"})
        IN /\ Len(nodes) = Len(branches)
           /\ \A i \in DOMAIN nodes :
                 /\ nodes[i].tags = {"IF"}
                 /\ nodes[i].lines = <<branches[i].line>>
                 /\ ~branches[i].first => nodes[i] = InPlace(branches[i])
           /\ \A i \in DOMAIN tree.children :
                 tree.children[i].lines[1].t \in {"elif", "else"} =>
                     /\ i > 1
                     /\ tree.children[i - 1].lines[1].t \in {"if", "elif"}
           /\ ~IfKept({"MODULE"}) =>
                 tree = stub_content(Module(Spliced(module.body, {"MODULE"})),
                                     relative_path, config, discovered).tree

\* the first pass emitted a chain of two elif branches without an else, under a
\* flatten_if policy that matches the test of the first elif: three sibling
\* nodes, the import of the elif branch inside its node
C24_ElifNotFlattened ==
    /\ pc = "pass1"
    /\ config.flatten_if = value_is({Name("T")})
    /\ IfKept({"MODULE"})
    /\ Len(module.body) = 1
    /\ Len(tree.children) = 3
    /\ tree.children[1].lines = <<IfLine("if", Name("foo"))>>
    /\ tree.children[2].lines = <<IfLine("elif", Name("T"))>>
    /\ "IMPORT" \in tree.children[2].children[1].tags
    /\ tree.children[3].lines = <<IfLine("elif", Name("bar"))>>

-----------------------------------------------------------------------------
(* Annotation-position rewriting *)

RECURSIVE Concat(_)
\* the concatenation of a sequence of sequences
Concat(ss) == IF ss = <<>> THEN <<>> ELSE Head(ss) \o Concat(Tail(ss))

\* the annotations of a statement, in source order: of a variable, or of the
\* parameters of a function and its return value
AnnsOfStmt(st) ==
    CASE st.kind = "assign" -> IF st.annotation # NoExpr THEN <<st.annotation>> ELSE <<>>
      [] st.kind = "func" ->
            LET annotated == SelectSeq(st.args.args, LAMBDA a : a.annotation # NoExpr)
            IN [i \in DOMAIN annotated |-> annotated[i].annotation]
               \o (IF st.returns # NoExpr THEN <<st.returns>> ELSE <<>>)
      [] OTHER -> <<>>
\* the annotations of the module given to the pass
AnnsIn == Concat([i \in DOMAIN module.body |-> AnnsOfStmt(module.body[i])])

\* the annotations on the header line of an emitted node
AnnsOfNode(n) ==
    LET l == n.lines[Len(n.lines)]
    IN CASE l.t = "assign" -> IF l.ann # NoExpr THEN <<l.ann>> ELSE <<>>
         [] l.t = "def" ->
               LET annotated == SelectSeq(l.args, LAMBDA a : a.ann # NoExpr)
               IN [i \in DOMAIN annotated |-> annotated[i].ann]
                  \o (IF l.returns # NoExpr THEN <<l.returns>> ELSE <<>>)
         [] OTHER -> <<>>
\* the annotations of the tree that the pass rendered
AnnsOut == Concat([i \in DOMAIN tree.children |-> AnnsOfNode(tree.children[i])])

\* the text of an expression that is not rewritten
Untouched(e) == unparse(e)

RECURSIVE Rewritten(_, _)
\* The rewriting that the claim describes.  A string literal is replaced by its
\* content; subscripts, tuples, lists and unions are rewritten part by part,
\* except the arguments after the first under Annotated and, under Literal, the
\* first argument (whole is FALSE) or the subscript as a whole (whole is TRUE).
Rewritten(e, whole) ==
    CASE e.k = "sub" ->
            IF e.base = "Literal" /\ whole THEN e
            ELSE [k |-> "sub", base |-> e.base, ml |-> FALSE,
                  args |-> [i \in DOMAIN e.args |->
                              IF \/ e.base = "Literal" /\ i = 1
                                 \/ e.base = "Annotated" /\ i > 1
                              THEN Untouched(e.args[i])
                              ELSE Rewritten(e.args[i], whole)]]
      [] e.k \in {"tuple", "list"} ->
            [e EXCEPT !.elts = [i \in DOMAIN e.elts |-> Rewritten(e.elts[i], whole)]]
      [] e.k = "bitor" ->
            [e EXCEPT !.left = Rewritten(e.left, whole), !.right = Rewritten(e.right, whole)]
      [] e.k = "str" -> IF e.s = Junk THEN Untouched(e) ELSE Untouched(e.s)
      [] OTHER -> Untouched(e)

\* C25 as stated: string-literal types are unquoted through subscripts, tuples,
\* lists and both sides of unions, except that the first argument under Literal
\* and the arguments after the first under Annotated are left untouched.
C25_LiteralFirstArgument ==
    pc \in {"pass1", "done"} =>
        AnnsOut = [i \in DOMAIN AnnsIn |-> Rewritten(AnnsIn[i], FALSE)]

\* C25, amended: string-literal types are unquoted through subscripts, tuples,
\* lists and both sides of unions, except that a subscript whose base is Literal
\* is emitted whole as it is written, none of its arguments rewritten, and that
\* the arguments after the first under Annotated are left untouched.
C25_LiteralWhole ==
    pc \in {"pass1", "done"} =>
        AnnsOut = [i \in DOMAIN AnnsIn |-> Rewritten(AnnsIn[i], TRUE)]

\* the first pass rewrote `Literal["a", "b"]` and `Annotated["a", "b", "c"]`: the
\* one is unchanged, the other has lost the quotes of its first argument only
C25_LiteralAndAnnotated ==
    /\ FirstPassDone
    /\ AnnsIn = <<Sub("Literal", <<Str(Name("a")), Str(Name("b"))>>),
                  Sub("Annotated", <<Str(Name("a")), Str(Name("b")), Str(Name("c"))>>)>>
    /\ AnnsOut = <<Sub("Literal", <<Str(Name("a")), Str(Name("b"))>>),
                   Sub("Annotated", <<Name("a"), Str(Name("b")), Str(Name("c"))>>)>>

-----------------------------------------------------------------------------
(* String literals that do not parse *)

\* a string literal whose content is no expression, written on one line or on
\* several, alone or as the argument of a subscript
Unparsable == {Str(Junk), MultiLine(Str(Junk)), Sub("List", <<Str(Junk)>>)}

\* the module holds a TypeAlias assignment whose value keeps a string literal
\* that does not parse
AliasOfUnparsable ==
    \E i \in DOMAIN module.body :
        /\ module.body[i].kind = "assign"
        /\ module.body[i].annotation = Name("TypeAlias")
        /\ module.body[i].value \in {Str(Junk), Sub("List", <<Str(Junk), Str(Name("a"))>>)}

\* no pass fails, and the name discovery of a TypeAlias assignment whose value
\* holds a string literal that does not parse ends with a usage set
NeverFails ==
    /\ pc # "raised"
    /\ (pc = "done" /\ discovered /\ AliasOfUnparsable) => used_names # NoSet

\* C26 as stated: a string-literal type whose content does not parse is emitted
\* unchanged, as the literal was written, and no pass fails because of it: not
\* the rewriting of an annotation, and not the name discovery that parses the
\* rewritten value of a TypeAlias assignment.
C26_OriginalLiteral ==
    /\ NeverFails
    /\ pc \in {"pass1", "done"} =>
          /\ Len(AnnsOut) = Len(AnnsIn)
          /\ \A i \in DOMAIN AnnsIn :
                AnnsIn[i] \in Unparsable => AnnsOut[i] = unparse_original_source(AnnsIn[i])

\* C26, amended: a string-literal type whose content does not parse is emitted
\* as a string literal of the same content in the canonical form of unparse,
\* which is not always the text that was written, and no pass fails because of
\* it: not the rewriting of an annotation, and not the name discovery that parses
\* the rewritten value of a TypeAlias assignment.
C26_CanonicalLiteral ==
    /\ NeverFails
    /\ pc \in {"pass1", "done"} =>
          /\ Len(AnnsOut) = Len(AnnsIn)
          /\ \A i \in DOMAIN AnnsIn :
                AnnsIn[i] \in Unparsable =>
                    /\ AnnsOut[i] = unparse(AnnsIn[i])
                    /\ AnnsIn[i].k = "str" => AnnsOut[i].k = "str" /\ AnnsOut[i].s = AnnsIn[i].s

\* the second pass discovered the names of `X: TypeAlias = List["...", "a"]`,
\* whose first string does not parse, and emitted the annotation of x, which
\* does not parse either, as the literal
C26_AliasDiscovered ==
    /\ pc = "done"
    /\ discovered
    /\ Len(module.body) = 2
    /\ module.body[1] = AnnAssign(Name("X"), Name("TypeAlias"),
                                  Sub("List", <<Str(Junk), Str(Name("a"))>>), 1)
    /\ module.body[2] = AnnAssign(Name("x"), Str(Junk), NoExpr, 1)
    /\ used_names = Some({"X", "TypeAlias", "List", "a", "x"})
    /\ AnnsOut = <<Name("TypeAlias"), Str(Junk)>>

-----------------------------------------------------------------------------
(* Indentation *)

RECURSIVE Listing(_, _)
\* the lines of a node at depth d and of its descendants in depth-first
\* pre-order, each with the number of spaces before it: four for each level, none
\* before a line without content; the children of a MODULE node are at the depth
\* of the node, those of any other node one level deeper
Listing(node, d) ==
    [i \in DOMAIN node.lines |->
        [sp |-> IF node.lines[i] = BlankLine THEN 0 ELSE 4 * d, line |-> node.lines[i]]]
    \o Concat([i \in DOMAIN node.children |->
                  Listing(node.children[i], IF "MODULE" \in node.tags THEN d ELSE d + 1)])

RECURSIVE SumSeq(_)
SumSeq(ns) == IF ns = <<>> THEN 0 ELSE Head(ns) + SumSeq(Tail(ns))

RECURSIVE ModuleNodes(_)
\* the number of MODULE nodes of a tree
ModuleNodes(node) ==
    (IF "MODULE" \in node.tags THEN 1 ELSE 0)
    + SumSeq([i \in DOMAIN node.children |-> ModuleNodes(node.children[i])])

\* C27: the text of a pass holds the lines of the rendered nodes in depth-first
\* pre-order, a node's own lines before those of its children, each line after
\* four spaces for each level of depth and without trailing blanks; the children
\* of the MODULE node are at its depth, the children of any other node one level
\* deeper; the tree that output renders is one MODULE node, its root.
C27_Indentation ==
    pc \in {"pass1", "done"} =>
        /\ text = Listing(Stripped(tree), 0)
        /\ "MODULE" \in tree.tags
        /\ ModuleNodes(tree) = 1

\* a pass rendered a class that holds a method: the class line without
\* indentation, the method after four spaces, its ellipsis after eight, and the
\* blank line of a spacer without any
C27_ThreeLevels ==
    /\ pc = "pass1"
    /\ Len(text) >= 5
    /\ text[1].sp = 0 /\ text[1].line.t = "class"
    /\ text[2].sp = 4 /\ text[2].line.t = "def"
    /\ text[3].sp = 8 /\ text[3].line = EllipsisLine
    /\ text[4] = [sp |-> 0, line |-> BlankLine]
    /\ text[5].sp = 0

-----------------------------------------------------------------------------
(* The usage set is created lazily *)

\* the top-level statements of a body that discovery visits
Visited(body) == {i \in DOMAIN body : body[i].kind # "import"}

\* C28: after a second pass with discovery, used_names is None exactly when the
\* text given to that pass has no non-import top-level statement; the imports of
\* such a text are all emitted with every member, although the unused-import
\* policy does not match them; with at least one non-import top-level statement
\* used_names is a set, and the top-level imports are cut down by it.
C28_LazyUsageSet ==
    (pc = "done" /\ discovered) =>
        /\ PolicySilent({"MODULE"})
        /\ Visited(module.body) = {} =>
              /\ used_names = NoSet
              /\ EmittedImports(tree) = module.body
        /\ Visited(module.body) # {} =>
              /\ used_names # NoSet
              /\ EmittedImports(tree) = Filtered(module.body, used_names[1])

\* under keep_unused_imports=False the second pass was given two imports and
\* nothing else, and has emitted both although no name is used
C28_ImportsOnlyUnpruned ==
    /\ pc = "done"
    /\ discovered
    /\ config.keep_unused_imports = PFalse
    /\ Len(module.body) = 2
    /\ Visited(module.body) = {}
    /\ \A i \in DOMAIN module.body :
          \A j \in DOMAIN module.body[i].names :
              ~IsWildcard(module.body[i].names[j]) /\ ~IsSelfReexport(module.body[i].names[j])
    /\ EmittedImports(tree) = module.body
    /\ Len(text) = 2

-----------------------------------------------------------------------------
(* Type alias statements *)

\* the type alias statements of a body, and the TYPE_ALIAS children of a node
TypeAliases(body) == SelectSeq(body, LAMBDA st : st.kind = "typealias")
AliasNodes(node) == SelectSeq(node.children, LAMBDA n : "TYPE_ALIAS" \in n.tags)

\* the node of a type alias statement: one line, the value rewritten as an
\* annotation, one tag and no children
AliasNode(st) ==
    Node(<<[t |-> "type", name |-> st.name, val |-> unparse_type_expr(st.value)]>>,
         {"TYPE_ALIAS"})

\* the type alias statements of a body are the TYPE_ALIAS children of the node,
\* in order, and none of them has a spacer after it
AliasesEmitted(body, node) ==
    /\ AliasNodes(node) = [i \in DOMAIN TypeAliases(body) |-> AliasNode(TypeAliases(body)[i])]
    /\ \A i \in 1..(Len(node.children) - 1) :
          "TYPE_ALIAS" \in node.children[i].tags => "SPACER" \notin node.children[i + 1].tags

\* the type alias statements in the class bodies of a body
NestedAliases(body) ==
    SumSeq([i \in DOMAIN body |->
               IF body[i].kind = "class" THEN Len(TypeAliases(body[i].body)) ELSE 0])

\* the TYPE_ALIAS nodes under the CLASS children of a node
NestedAliasNodes(node) ==
    SumSeq([i \in DOMAIN node.children |->
               IF "CLASS" \in node.children[i].tags
               THEN Len(AliasNodes(node.children[i])) ELSE 0])

\* a pass has returned
PassDone == pc \in {"pass1", "done"}

-----------------------------------------------------------------------------
(* The mypy-backed generator *)

\* roots that one walk yields
MaxRoots == 2
\* events below one directory root
MaxEvents == 2

\* a path is the sequence of its parts; a part is a name with Path.stem and
\* Path.suffix kept apart
Part(stem, suffix) == [stem |-> stem, suffix |-> suffix]

\* path == dir or dir in path.parents
IsUnder(path, dir) == Len(dir) <= Len(path) /\ SubSeq(path, 1, Len(dir)) = dir

\* Path.suffix
Suffix(path) == path[Len(path)].suffix

\* fs.Event: the fields that generate reads
Event(kind, inp_path, out_path, is_file) ==
    [kind |-> kind, inp_path |-> inp_path, out_path |-> out_path, is_file |-> is_file]

\* the events of a root that is a file: the root and one event for the same file
FileRoot(inp_name, out_name, kind) ==
    <<Event("ROOT", <<inp_name>>, <<out_name>>, TRUE), Event(kind, <<inp_name>>, <<out_name>>, TRUE)>>

ModDir == Part("mod", "")

\* the events below the directory root mod: a module to stub, a stub file with the
\* output path of that module, and a marker file
DirEvents ==
    {Event("STUB", <<ModDir, Part("a", ".py")>>, <<ModDir, Part("a", ".pyi")>>, TRUE),
     Event("COPY", <<ModDir, Part("a", ".pyi")>>, <<ModDir, Part("a", ".pyi")>>, TRUE),
     Event("COPY", <<ModDir, Part("py", ".typed")>>, <<ModDir, Part("py", ".typed")>>, TRUE)}

Distinct(q) == \A i, j \in DOMAIN q : i # j => q[i] # q[j]

\* a root with the events that belong to it
Groups ==
    {FileRoot(Part("a", ".py"), Part("a", ".pyi"), "STUB"),
     FileRoot(Part("a", ".pyi"), Part("a", ".pyi"), "COPY"),
     FileRoot(Part("notes", ".txt"), Part("notes", ".txt"), "STUB")}
    \cup {<<Event("ROOT", <<ModDir>>, <<ModDir>>, FALSE)>> \o q :
             q \in {r \in SeqsUpTo(DirEvents, MaxEvents) : Distinct(r)}}

\* the walks: one to MaxRoots roots of different input paths, each followed by its
\* events
Walks ==
    {Concat(gs) : gs \in {g \in SeqsUpTo(Groups, MaxRoots) \ {<<>>} :
                             Distinct([i \in DOMAIN g |-> g[i][1].inp_path])}}

\* the files of the output tree
OutFiles == UNION {{g[i].out_path : i \in 2..Len(g)} : g \in Groups}

\* a call that changes the output tree, with the output path it is given
Effect(op, path) == [op |-> op, path |-> path]

\* the condition under which generate calls generate_mypy for a root
call_mypy_always(root, stub_events) == TRUE

\* `if stub_events and (not root.is_file or (root.inp_path.suffix in (".py", ".pyi")))`
call_mypy(root, stub_events) ==
    stub_events # <<>> /\ (~root.is_file \/ Suffix(root.inp_path) \in {".py", ".pyi"})

InitMypy ==
    /\ walker \in Walks
    /\ walked = 0
    /\ roots = <<>>
    /\ cur = 0
    /\ step = "clean"
    /\ copied = 0
    /\ effects = <<>>
    /\ out_tree = [p \in OutFiles |-> <<"old">>]
    /\ pc = "walk"
    /\ NoRun
    /\ NoPattern
    /\ NoFiles
    /\ NoImport

\* the body of `for event in walker.walk()`: a ROOT opens an entry of roots, a STUB
\* or COPY goes to the last entry after the assertion on its input path; the
\* second loop starts after the last event
WalkEvent ==
    /\ pc = "walk"
    /\ walked < Len(walker)
    /\ LET event == walker[walked + 1]
           last == roots[Len(roots)]
           asserted ==
               /\ roots # <<>>
               /\ IF last.root.is_file
                  THEN event.inp_path = last.root.inp_path
                  ELSE IsUnder(event.inp_path, last.root.inp_path)
           appended ==
               CASE event.kind = "ROOT" ->
                       Append(roots, [root |-> event, stub_events |-> <<>>, copy_events |-> <<>>])
                 [] event.kind = "STUB" ->
                       [roots EXCEPT ![Len(roots)].stub_events = Append(@, event)]
                 [] event.kind = "COPY" ->
                       [roots EXCEPT ![Len(roots)].copy_events = Append(@, event)]
       IN IF event.kind # "ROOT" /\ ~asserted
          THEN pc' = "failed" /\ UNCHANGED <<roots, cur>>
          ELSE /\ roots' = appended
               /\ pc' = IF walked + 1 = Len(walker) THEN "roots" ELSE "walk"
               /\ cur' = IF walked + 1 = Len(walker) THEN 1 ELSE cur
    /\ walked' = walked + 1
    /\ UNCHANGED <<step, copied, effects, out_tree, walker>>
    /\ UNCHANGED <<stub_vars, pattern_vars, files, import_vars>>

\* `remove(root.out_path)`
Clean ==
    /\ pc = "roots"
    /\ step = "clean"
    /\ LET root == roots[cur].root
       IN /\ effects' = Append(effects, Effect("remove", root.out_path))
          /\ out_tree' = [p \in DOMAIN out_tree |->
                             IF IsUnder(p, root.out_path) THEN <<>> ELSE out_tree[p]]
    /\ step' = "stub"
    /\ UNCHANGED <<pc, walker, walked, roots, cur, copied>>
    /\ UNCHANGED <<stub_vars, pattern_vars, files, import_vars>>

\* the end of the body of the second loop: the next root, or format_pyi_tree
EndOfRoot ==
    /\ cur' = cur + 1
    /\ step' = "clean"
    /\ copied' = 0
    /\ pc' = IF cur = Len(roots) THEN "format" ELSE "roots"

\* the guarded call of generate_mypy.  mypy runs on root.inp_path and its result
\* is renamed to root.out_path: for a file that is one file, for a directory,
\* after rmtree, whatever files mypy has made below it.  subprocess.run(check=True)
\* and the assertions of find_mypy_out can raise.
StubRoot ==
    /\ pc = "roots"
    /\ step = "stub"
    /\ LET root == roots[cur].root
           called == Append(effects, Effect("generate_mypy", root.out_path))
           continue == IF roots[cur].copy_events = <<>>
                       THEN EndOfRoot
                       ELSE step' = "copy" /\ UNCHANGED <<pc, cur, copied>>
       IN IF call_mypy(root, roots[cur].stub_events)
          THEN \/ /\ effects' = called
                  /\ \E made \in SUBSET {p \in DOMAIN out_tree : IsUnder(p, root.out_path)} :
                        /\ root.is_file => made = {root.out_path}
                        /\ out_tree' = [p \in DOMAIN out_tree |->
                                           IF p \in made THEN Append(out_tree[p], "mypy")
                                           ELSE IF IsUnder(p, root.out_path) THEN <<>>
                                           ELSE out_tree[p]]
                  /\ continue
               \/ /\ effects' = called
                  /\ pc' = "failed"
                  /\ UNCHANGED <<out_tree, cur, step, copied>>
          ELSE /\ UNCHANGED <<effects, out_tree>>
               /\ continue
    /\ UNCHANGED <<walker, walked, roots>>
    /\ UNCHANGED <<stub_vars, pattern_vars, files, import_vars>>

\* the body of `for event in copy_events`: generate_copy(event.inp_path, event.out_path)
CopyEvent ==
    /\ pc = "roots"
    /\ step = "copy"
    /\ LET event == roots[cur].copy_events[copied + 1]
       IN /\ effects' = Append(effects, Effect("generate_copy", event.out_path))
          /\ out_tree' = [out_tree EXCEPT ![event.out_path] = Append(@, "copy")]
    /\ IF copied + 1 = Len(roots[cur].copy_events)
       THEN EndOfRoot
       ELSE copied' = copied + 1 /\ UNCHANGED <<pc, cur, step>>
    /\ UNCHANGED <<walker, walked, roots>>
    /\ UNCHANGED <<stub_vars, pattern_vars, files, import_vars>>

\* format_pyi_tree(walker, config)
Format ==
    /\ pc = "format"
    /\ effects' = Append(effects, Effect("format_pyi_tree", <<>>))
    /\ pc' = "generated"
    /\ UNCHANGED <<walker, walked, roots, cur, step, copied, out_tree>>
    /\ UNCHANGED <<stub_vars, pattern_vars, files, import_vars>>

NextMypy == WalkEvent \/ Clean \/ StubRoot \/ CopyEvent \/ Format

SpecMypy == InitMypy /\ [][NextMypy]_vars

-----------------------------------------------------------------------------
(* The order of the steps of the mypy-backed generator *)

\* the positions of the ROOT events of a walk
RootsOf(w) == {i \in DOMAIN w : w[i].kind = "ROOT"}

\* the most recent ROOT event before position i
RecentRoot(w, i) == CHOOSE r \in RootsOf(w) : r < i /\ \A k \in RootsOf(w) : k < i => k <= r

RECURSIVE Attributed(_, _, _, _)
\* the events of one kind from position i on whose most recent ROOT is at r
Attributed(w, r, kind, i) ==
    IF i > Len(w) THEN <<>>
    ELSE (IF w[i].kind = kind /\ RecentRoot(w, i) = r THEN <<w[i]>> ELSE <<>>)
         \o Attributed(w, r, kind, i + 1)

\* the calls that the claim has for the root at position r
ClaimedSteps(w, r) ==
    LET stubs == Attributed(w, r, "STUB", r + 1)
        copies == Attributed(w, r, "COPY", r + 1)
        python == Suffix(w[r].inp_path) \in {".py", ".pyi"}
    IN <<Effect("remove", w[r].out_path)>>
       \o (IF stubs # <<>> /\ (w[r].is_file => python)
           THEN <<Effect("generate_mypy", w[r].out_path)>> ELSE <<>>)
       \o [i \in DOMAIN copies |-> Effect("generate_copy", copies[i].out_path)]

\* the calls that the claim has for a walk: those of its roots, one root after
\* the other, and the formatting at the end
Claimed(w) ==
    LET at == SelectSeq([i \in DOMAIN w |-> i], LAMBDA i : w[i].kind = "ROOT")
    IN Concat([n \in DOMAIN at |-> ClaimedSteps(w, at[n])])
       \o <<Effect("format_pyi_tree", <<>>)>>

\* the entries of roots that the claim has for a walk
ClaimedRoots(w) ==
    LET at == SelectSeq([i \in DOMAIN w |-> i], LAMBDA i : w[i].kind = "ROOT")
    IN [n \in DOMAIN at |->
          [root |-> w[at[n]],
           stub_events |-> Attributed(w, at[n], "STUB", at[n] + 1),
           copy_events |-> Attributed(w, at[n], "COPY", at[n] + 1)]]

\* q is the beginning of s
Begins(q, s) == Len(q) <= Len(s) /\ q = SubSeq(s, 1, Len(q))

\* C30: generate attributes every STUB and COPY event to the most recent ROOT
\* event before it; the calls it makes are, in this order and for one root after
\* the other, the removal of the root's output path, generate_mypy if the root
\* has a STUB event (and, when it is a file, the suffix .py or .pyi), and
\* generate_copy for each COPY event of the root; format_pyi_tree is called once,
\* after the last root; and no file of the output tree is written by mypy after
\* a copy has written it.
C30_StepsInOrder ==
    /\ pc \in {"roots", "format", "generated"} => roots = ClaimedRoots(walker)
    /\ pc \in {"walk", "roots", "format", "failed"} =>
          /\ Begins(effects, Claimed(walker))
          /\ effects # Claimed(walker)
    /\ pc = "generated" => effects = Claimed(walker)
    /\ \A p \in DOMAIN out_tree :
          \A i, j \in DOMAIN out_tree[p] :
              (out_tree[p][i] = "copy" /\ out_tree[p][j] = "mypy") => j < i

\* generate has returned for a walk of two roots: for the file notes.txt, which has
\* a STUB event, mypy was not called, and below the directory mod a copied file
\* has replaced the one that mypy had made at the same output path
C30_CopyOverMypy ==
    /\ pc = "generated"
    /\ Len(roots) = 2
    /\ roots[1].root.inp_path = <<Part("notes", ".txt")>>
    /\ roots[1].stub_events # <<>>
    /\ ~roots[2].root.is_file
    /\ Len(SelectSeq(effects, LAMBDA c : c.op = "generate_mypy")) = 1
    /\ out_tree[<<ModDir, Part("a", ".pyi")>>] = <<"mypy", "copy">>
    /\ out_tree[<<Part("notes", ".txt")>>] = <<>>

====
